---- MODULE Spec2Model ----
(***************************************************************************)
(* Ledger & settlement engine of the payment microservice: wallets,        *)
(* transactions with the revenue split on PENDING -> SUCCESS, payouts.     *)
(*                                                                         *)
(* The durable store is PostgreSQL behind Prisma.  An interactive          *)
(* prisma.$transaction runs at READ COMMITTED: every statement reads the   *)
(* rows committed at the moment it runs, an UPDATE takes the row's lock    *)
(* and keeps it until the unit commits or rolls back, and the unit's       *)
(* writes become visible to others at commit.  A statement issued outside  *)
(* $transaction is its own unit.  Each request is a process that runs its  *)
(* handler one store statement at a time.                                  *)
(*                                                                         *)
(* Money: amounts are whole currency units; balances are kept in           *)
(* hundredths of a unit (Scale), which makes the Decimal products          *)
(* amount * 0.85, amount * 0.1 and amount * 0.05 exact integers.           *)
(***************************************************************************)
EXTENDS Integers, Sequences, FiniteSets, TLC

VARIABLES
    impl,        \* which TransactionService module the build resolves to
    wallets,     \* Wallet rows, per id: kind and owning user
    balance,     \* Wallet.balance, per wallet row, in hundredths
    txns,        \* Transaction rows, per id
    payouts,     \* Payout rows, per id
    items,       \* PayoutItem rows
    txnLock,     \* row locks of Transaction rows
    walletLock,  \* row locks of Wallet rows
    payoutLock,  \* row locks of Payout rows
    proc,        \* the requests in flight: handler, position, locals
    calls,       \* number of requests started so far
    last,        \* the request that ended last: handler, arguments, result
    credited,    \* history: committed wallet credits of PENDING->SUCCESS, per transaction
    debited      \* history: committed wallet debits of processPayout, per payout

vars == <<impl, wallets, balance, txns, payouts, items, txnLock, walletLock, payoutLock,
          proc, calls, last, credited, debited>>

----------------------------------------------------------------------------
(* Bounds of the model *)

MaxCalls == 2        \* requests per behaviour, concurrent
MaxSeqCalls == 3     \* requests per behaviour, one after the other
MaxPayoutCalls == 3  \* payout requests per behaviour
MaxLifeCalls == 4    \* payout requests per behaviour, one after the other
MaxAmount == 12      \* gross amounts 1..MaxAmount of the orders that are split

\* two request slots: two requests can be in flight at once
Procs == {1, 2}
NoProc == 0

\* Transaction ids: the order placed before the requests arrive is 1; every
\* request inserts at most one row, so the tables never run out of ids
FirstOrder == 1
TxnIds == 1..(1 + MaxCalls + MaxSeqCalls + MaxPayoutCalls)
PayoutIds == 1..MaxPayoutCalls

----------------------------------------------------------------------------
(* Enumerations of the schema *)

PaymentStatus == {"PENDING", "SUCCESS", "FAILED", "REFUNDED"}
TransactionType == {"CHARGE", "REFUND", "COMMISSION", "TAX", "NET_PAYOUT", "PAYOUT", "ADJUSTMENT"}
PayoutStatus == {"PENDING", "SCHEDULED", "PROCESSING", "COMPLETED", "FAILED"}

\* Wallet rows of the store: the instructor wallets of users 1 and 2 and the
\* two platform wallets (owning user null, written 0).
InstructorWallet == 1
CommissionWallet == 2
TaxWallet == 3
OtherWallet == 4
WalletIds == {InstructorWallet, CommissionWallet, TaxWallet, OtherWallet}
NoUser == 0
NoWallet == 0
NoDate == 0
Dates == {1, 2}
Instructor == 1
OtherInstructor == 2

NoWalletRow == [type |-> "absent", userId |-> NoUser]

\* the Wallet table as seeded: an instructor wallet for each of the two users
\* and one wallet of each platform kind
Seeded ==
    [w \in WalletIds |->
        CASE w = CommissionWallet -> [type |-> "PLATFORM_COMMISSION", userId |-> NoUser]
          [] w = TaxWallet -> [type |-> "PLATFORM_TAX", userId |-> NoUser]
          [] w = InstructorWallet -> [type |-> "INSTRUCTOR", userId |-> Instructor]
          [] OTHER -> [type |-> "INSTRUCTOR", userId |-> OtherInstructor]]

WalletRows == {w \in WalletIds : wallets[w].type # "absent"}
WalletType(w) == wallets[w].type
WalletUser(w) == wallets[w].userId

\* findFirst({ where: { type, userId } }) on a Wallet table: 0 when no row
\* matches
FindWalletIn(table, type, user) ==
    LET m == {w \in WalletIds : table[w].type = type /\ table[w].userId = user}
    IN IF m = {} THEN NoWallet ELSE CHOOSE w \in m : \A v \in m : w <= v

\* tx.wallet.findFirst({ where: { type, userId } })
FindWalletByTypeAndUser(type, user) == FindWalletIn(wallets, type, user)

\* tx.wallet.findFirst({ where: { type } })
FindWalletByType(type) ==
    LET m == {w \in WalletRows : WalletType(w) = type}
    IN IF m = {} THEN NoWallet ELSE CHOOSE w \in m : \A v \in m : w <= v

----------------------------------------------------------------------------
(* Money *)

Scale == 100

PLATFORM_COMMISSION_RATE == 10
PLATFORM_TAX_RATE == 5
DEFAULT_INSTRUCTOR_RATE == Scale - PLATFORM_COMMISSION_RATE - PLATFORM_TAX_RATE

\* new Decimal(amount): a whole amount as a balance value
Dec(amount) == amount * Scale

\* faulty variants of the shares: the instructor's share rounded down to whole
\* units; the tax share at 15%
InstructorAmountRounded(amount) == ((amount * DEFAULT_INSTRUCTOR_RATE) \div Scale) * Scale
TaxAmountAtFifteen(amount) == amount * 15

\* totalAmount.mul(rate), rate given in hundredths
InstructorAmount(amount) == amount * DEFAULT_INSTRUCTOR_RATE
CommissionAmount(amount) == amount * PLATFORM_COMMISSION_RATE
TaxAmount(amount) == amount * PLATFORM_TAX_RATE

NoSplit == <<>>
SplitDetails(amount) == <<InstructorAmount(amount), CommissionAmount(amount), TaxAmount(amount)>>

\* TRANSACTION_TYPE_CONFIG
AffectsWallet(type) == type # "NET_PAYOUT"
Operation(type) ==
    CASE type = "CHARGE" -> "ADD"
      [] type \in {"REFUND", "COMMISSION", "TAX", "PAYOUT"} -> "SUBTRACT"
      [] OTHER -> "null"

----------------------------------------------------------------------------
(* Rows and locals *)

\* origin: metadata.originalTransactionId of a refund, metadata.payoutId of a payout
NoTxn == [status |-> "absent", type |-> "none", amount |-> 0, userId |-> NoUser,
          walletId |-> NoWallet, externalId |-> 0, keys |-> {}, split |-> NoSplit,
          origin |-> 0]

\* scheduledAt: NoDate when the payout was created without one;
\* cancelled: metadata.cancelled; retried: metadata.retried
NoPayout == [status |-> "absent", instructorId |-> NoUser, walletId |-> NoWallet,
             amount |-> 0, scheduledAt |-> NoDate, cancelled |-> FALSE,
             retried |-> FALSE]

\* a metadata argument: given or undefined, its keys, the splitDetails it carries
NoMeta == [given |-> FALSE, keys |-> {}, split |-> NoSplit]
Meta(keys, split) == [given |-> TRUE, keys |-> keys, split |-> split]

IdleProc == [op |-> "none", pc |-> "idle", caller |-> "none", id |-> 0, ext |-> 0,
             st |-> "none", md |-> NoMeta, old |-> "none", oldMeta |-> NoMeta,
             amt |-> 0, w |-> NoWallet, kind |-> "none", user |-> NoUser,
             auto |-> FALSE, res |-> "none", sig |-> TRUE, at |-> NoDate,
             due |-> <<>>, rest |-> <<>>, results |-> <<>>, processed |-> 0,
             failed |-> 0, marks |-> {}]

Exists(t) == t \in TxnIds /\ txns[t].status # "absent"
TxnCount == Cardinality({t \in TxnIds : txns[t].status # "absent"})

\* the ids a request may name: those of the rows, and one that names no row
KnownIds == {t \in TxnIds : t <= TxnCount + 1}

\* transactionRepository.findByExternalId: 0 when no row has that reference
FindByExternalId(ext) ==
    LET m == {t \in TxnIds : txns[t].status # "absent" /\ txns[t].externalId = ext}
    IN IF m = {} THEN 0 ELSE CHOOSE t \in m : TRUE

Free(lock, row, p) == lock[row] \in {NoProc, p}

Release(lock, p) == [r \in DOMAIN lock |-> IF lock[r] = p THEN NoProc ELSE lock[r]]

\* a request takes the lowest free slot
CanStart(p) == proc[p].pc = "idle" /\ \A q \in Procs : q < p => proc[q].pc # "idle"

Quiet == \A q \in Procs : proc[q].pc = "idle"

NoCall == [op |-> "none", id |-> 0, st |-> "none", old |-> "none", w |-> NoWallet,
           amt |-> 0, kind |-> "none", res |-> "none", sig |-> TRUE,
           due |-> <<>>, results |-> <<>>, processed |-> 0, failed |-> 0,
           caller |-> "none"]

Ended(r, res) == [op |-> r.op, id |-> r.id, st |-> r.st, old |-> r.old, w |-> r.w,
                  amt |-> r.amt, kind |-> r.kind, res |-> res, sig |-> r.sig,
                  due |-> r.due, results |-> r.results, processed |-> r.processed,
                  failed |-> r.failed, caller |-> r.caller]

\* the request of p ends with result r: its unit (if any) is over, its locks are gone
Finish(p, r) ==
    /\ proc' = [proc EXCEPT ![p] = IdleProc]
    /\ last' = Ended(proc[p], r)
    /\ txnLock' = Release(txnLock, p)
    /\ walletLock' = Release(walletLock, p)
    /\ payoutLock' = Release(payoutLock, p)

\* a request arrives; one that is answered before it touches the store ends at once
Begin(p, rec) ==
    /\ CanStart(p)
    /\ calls' = calls + 1
    /\ IF rec.pc = "done"
       THEN proc' = proc /\ last' = Ended(rec, rec.res)
       ELSE proc' = [proc EXCEPT ![p] = rec] /\ last' = last

dbVars == <<balance, txns, payouts, items>>
lockVars == <<txnLock, walletLock, payoutLock>>
histVars == <<credited, debited>>

----------------------------------------------------------------------------
(* Inputs *)

ChargeAmounts == {7, 10000}

\* who an order is placed for: the instructor and their wallet, or nobody
OrderOwners == {<<Instructor, InstructorWallet>>, <<NoUser, NoWallet>>}

\* the row PaymentService.createPaymentOrder inserts for an order
PendingCharge(id, amount, owner) ==
    [status |-> "PENDING", type |-> "CHARGE", amount |-> amount,
     userId |-> owner[1], walletId |-> owner[2], externalId |-> id,
     keys |-> {"gatewayOrderId"}, split |-> NoSplit, origin |-> 0]

----------------------------------------------------------------------------
(* TransactionController.updateTransactionStatus: PATCH /:id/status.  The  *)
(* validation admits every status of the enum; metadata is optional.       *)

StartUpdateStatus(p) ==
    \E id \in KnownIds, st \in PaymentStatus, md \in {NoMeta, Meta({"manual"}, NoSplit)} :
        /\ Begin(p, [IdleProc EXCEPT !.op = "updateTransactionStatus", !.pc = "uts_find",
                                     !.caller = "controller", !.id = id, !.st = st,
                                     !.md = md])
        /\ UNCHANGED <<impl, wallets, dbVars, lockVars, histVars>>

(* TransactionService.updateTransactionStatus, entered by the controller,  *)
(* by verifyPayment and by the payment.captured webhook.                   *)

\* an error thrown inside the unit: it rolls back; verifyPayment catches the
\* error and goes on to mark the transaction FAILED, the scheduled sweep
\* catches it and goes on to mark the payout FAILED, the others rethrow
Throw(p, r) ==
    IF proc[p].caller \in {"verifyPayment", "sweep"}
    THEN /\ proc' = [proc EXCEPT ![p].pc = IF proc[p].caller = "sweep" THEN "sw_failed"
                                           ELSE "vp_failed",
                                  ![p].res = r]
         /\ last' = last
         /\ txnLock' = Release(txnLock, p)
         /\ walletLock' = Release(walletLock, p)
         /\ payoutLock' = Release(payoutLock, p)
    ELSE Finish(p, r)

\* tx.transaction.findUnique
UtsFind(p) ==
    /\ proc[p].pc = "uts_find"
    /\ IF Exists(proc[p].id)
       THEN /\ proc' = [proc EXCEPT ![p].pc = "uts_update",
                                    ![p].old = txns[proc[p].id].status,
                                    ![p].oldMeta = Meta(txns[proc[p].id].keys,
                                                        txns[proc[p].id].split)]
            /\ UNCHANGED <<lockVars, last>>
       ELSE Throw(p, "NotFound")
    /\ UNCHANGED <<impl, wallets, dbVars, calls, histVars>>

\* the metadata the first update writes: metadata || transaction.metadata
FirstMeta(r) == IF r.md.given THEN r.md ELSE r.oldMeta

JustSucceeded(r) == r.old = "PENDING" /\ r.st = "SUCCESS"

\* tx.transaction.update({ status: newStatus, metadata }) when the payment did
\* not just succeed: nothing follows in the unit, it commits
UtsUpdateOnly(p) ==
    LET r == proc[p] IN
    /\ r.pc = "uts_update"
    /\ ~JustSucceeded(r)
    /\ Free(txnLock, r.id, p)
    /\ txns' = [txns EXCEPT ![r.id].status = r.st,
                            ![r.id].keys = FirstMeta(r).keys,
                            ![r.id].split = FirstMeta(r).split]
    /\ Finish(p, "ok")
    /\ UNCHANGED <<impl, wallets, balance, payouts, items, calls, histVars>>

\* the same update when oldStatus is PENDING and newStatus SUCCESS: the row
\* stays locked while the unit goes on
UtsUpdate(p) ==
    LET r == proc[p] IN
    /\ r.pc = "uts_update"
    /\ JustSucceeded(r)
    /\ Free(txnLock, r.id, p)
    /\ txnLock' = [txnLock EXCEPT ![r.id] = p]
    /\ proc' = [proc EXCEPT ![p].pc = IF impl = "split" THEN "uts_wallets" ELSE "uts_config"]
    /\ UNCHANGED <<impl, wallets, dbVars, walletLock, payoutLock, calls, last, histVars>>

\* platformWallet.service.ts:696-708: the three wallets are looked up
UtsWallets(p) ==
    LET r == proc[p]
        t == txns[r.id] IN
    /\ r.pc = "uts_wallets"
    /\ IF FindWalletByTypeAndUser("INSTRUCTOR", t.userId) = NoWallet
       THEN Throw(p, "InstructorWalletNotFound")
       ELSE IF FindWalletByType("PLATFORM_COMMISSION") = NoWallet
       THEN Throw(p, "CommissionWalletNotFound")
       ELSE IF FindWalletByType("PLATFORM_TAX") = NoWallet
       THEN Throw(p, "TaxWalletNotFound")
       ELSE /\ proc' = [proc EXCEPT ![p].pc = "uts_credit"]
            /\ UNCHANGED <<lockVars, last>>
    /\ UNCHANGED <<impl, wallets, dbVars, calls, histVars>>

\* a faulty variant: the three balances are set to the shares, as a write of
\* a value computed from a balance read before the other unit committed
CreditSplitOverwrite(bal, wi, wc, wt, amount) ==
    [w \in DOMAIN bal |->
        IF w = wi THEN InstructorAmount(amount)
        ELSE IF w = wc THEN CommissionAmount(amount)
        ELSE IF w = wt THEN TaxAmount(amount)
        ELSE bal[w]]

\* the balances after the three increments of the split
CreditSplit(bal, wi, wc, wt, amount) ==
    [w \in DOMAIN bal |->
        bal[w] + (IF w = wi THEN InstructorAmount(amount) ELSE 0)
               + (IF w = wc THEN CommissionAmount(amount) ELSE 0)
               + (IF w = wt THEN TaxAmount(amount) ELSE 0)]

\* platformWallet.service.ts:711-743: three increments, the splitDetails
\* written into the metadata, commit
UtsCredit(p) ==
    LET r == proc[p]
        t == txns[r.id]
        wi == FindWalletByTypeAndUser("INSTRUCTOR", t.userId)
        wc == FindWalletByType("PLATFORM_COMMISSION")
        wt == FindWalletByType("PLATFORM_TAX") IN
    /\ r.pc = "uts_credit"
    /\ \A w \in {wi, wc, wt} : Free(walletLock, w, p)
    /\ balance' = CreditSplit(balance, wi, wc, wt, t.amount)
    /\ txns' = [txns EXCEPT ![r.id].status = r.st,
                            ![r.id].keys = IF r.md.given THEN r.md.keys ELSE {},
                            ![r.id].split = SplitDetails(t.amount)]
    /\ credited' = [credited EXCEPT ![r.id] = @ + 1]
    /\ Finish(p, "ok")
    /\ UNCHANGED <<impl, wallets, payouts, items, calls, debited>>

\* transaction.service.ts:200-213: the rule of the transaction's kind, the
\* wallet row read, the balance verified for SUBTRACT
UtsConfig(p) ==
    LET r == proc[p]
        t == txns[r.id]
        applies == AffectsWallet(t.type) /\ t.walletId # NoWallet
                   /\ Operation(t.type) # "null" /\ t.walletId \in WalletRows IN
    /\ r.pc = "uts_config"
    /\ IF applies /\ Operation(t.type) = "SUBTRACT" /\ balance[t.walletId] < Dec(t.amount)
       THEN Throw(p, "InsufficientFunds")
       ELSE /\ proc' = [proc EXCEPT ![p].pc = IF applies THEN "uts_apply" ELSE "uts_commit"]
            /\ UNCHANGED <<lockVars, last>>
    /\ UNCHANGED <<impl, wallets, dbVars, calls, histVars>>

\* the balance after tx.wallet.update({ balance: { increment | decrement } })
ApplyOperation(bal, w, operation, amount) ==
    [bal EXCEPT ![w] = IF operation = "ADD" THEN @ + Dec(amount) ELSE @ - Dec(amount)]

\* transaction.service.ts:215-229: the wallet update, commit
UtsApply(p) ==
    LET r == proc[p]
        t == txns[r.id] IN
    /\ r.pc = "uts_apply"
    /\ Free(walletLock, t.walletId, p)
    /\ balance' = ApplyOperation(balance, t.walletId, Operation(t.type), t.amount)
    /\ txns' = [txns EXCEPT ![r.id].status = r.st,
                            ![r.id].keys = FirstMeta(r).keys,
                            ![r.id].split = FirstMeta(r).split]
    /\ credited' = [credited EXCEPT ![r.id] = @ + 1]
    /\ Finish(p, "ok")
    /\ UNCHANGED <<impl, wallets, payouts, items, calls, debited>>

\* transaction.service.ts:228: no wallet is touched, commit
UtsCommit(p) ==
    LET r == proc[p] IN
    /\ r.pc = "uts_commit"
    /\ txns' = [txns EXCEPT ![r.id].status = r.st,
                            ![r.id].keys = FirstMeta(r).keys,
                            ![r.id].split = FirstMeta(r).split]
    /\ Finish(p, "ok")
    /\ UNCHANGED <<impl, wallets, balance, payouts, items, calls, histVars>>

----------------------------------------------------------------------------
(* PaymentService.verifyPayment *)

\* part_004:89-97: provider.verifyPayment is an async function and its
\* result is not awaited, so isValid is a promise: never falsy
IsValid(signatureMatches) == TRUE

StartVerifyPayment(p) ==
    \E order \in KnownIds, signatureMatches \in BOOLEAN, gatewayUp \in BOOLEAN :
        /\ Begin(p, [IdleProc EXCEPT !.op = "verifyPayment", !.caller = "verifyPayment",
                        !.ext = order, !.sig = signatureMatches,
                        !.pc = IF IsValid(signatureMatches) /\ gatewayUp
                               THEN "vp_find" ELSE "vp_failed",
                        !.res = IF ~IsValid(signatureMatches) THEN "SignatureInvalid"
                                ELSE IF ~gatewayUp THEN "ProviderUnavailable"
                                ELSE "none"])
        /\ UNCHANGED <<impl, wallets, dbVars, lockVars, histVars>>

\* part_004:103-126: the transaction of the order, then the status update with
\* the row's metadata merged with the payment's
VpFind(p) ==
    LET r == proc[p]
        t == FindByExternalId(r.ext) IN
    /\ r.pc = "vp_find"
    /\ proc' = IF t = 0
               THEN [proc EXCEPT ![p].pc = "vp_failed", ![p].res = "NotFound"]
               ELSE [proc EXCEPT ![p].pc = "uts_find", ![p].id = t, ![p].st = "SUCCESS",
                                 ![p].md = Meta(txns[t].keys \cup {"gatewayEvent"},
                                                txns[t].split)]
    /\ UNCHANGED <<impl, wallets, dbVars, lockVars, calls, last, histVars>>

\* part_004:133-139: the catch block looks the transaction up again
VpFailed(p) ==
    LET r == proc[p]
        t == FindByExternalId(r.ext) IN
    /\ r.pc = "vp_failed"
    /\ IF t # 0 /\ txns[t].status = "PENDING"
       THEN /\ proc' = [proc EXCEPT ![p].pc = "vp_mark_failed", ![p].id = t,
                                    ![p].oldMeta = Meta(txns[t].keys, txns[t].split)]
            /\ UNCHANGED <<lockVars, last>>
       ELSE Finish(p, r.res)
    /\ UNCHANGED <<impl, wallets, dbVars, calls, histVars>>

\* a faulty variant: the row is written whole from the status and the metadata
UpdateStatusReplacingRow(rows, id, status, meta) ==
    [rows EXCEPT ![id] = [NoTxn EXCEPT !.status = status, !.keys = meta.keys,
                                       !.split = meta.split]]

\* TransactionRepository.updateStatus: one UPDATE by id, its own unit
UpdateStatus(rows, id, status, meta) ==
    [rows EXCEPT ![id].status = status, ![id].keys = meta.keys, ![id].split = meta.split]

\* part_004:140-150: transactionRepository.updateStatus(FAILED), the error rethrown
VpMarkFailed(p) ==
    LET r == proc[p] IN
    /\ r.pc = "vp_mark_failed"
    /\ Free(txnLock, r.id, p)
    /\ txns' = UpdateStatus(txns, r.id, "FAILED",
                            Meta(r.oldMeta.keys \cup {"failureReason"}, r.oldMeta.split))
    /\ Finish(p, r.res)
    /\ UNCHANGED <<impl, wallets, balance, payouts, items, calls, histVars>>

----------------------------------------------------------------------------
(* PaymentService.handleWebhook *)

WebhookEvents == {"payment.captured", "payment.failed", "order.paid", "refund.created"}

\* a faulty variant: the result of the verification is always truthy
VerifyWebhookSignatureTruthy(secretConfigured, signatureMatches) == TRUE

\* RazorpayProvider.verifyWebhookSignature: false without a webhook secret,
\* otherwise whether the HMAC of the payload equals the signature
VerifyWebhookSignature(secretConfigured, signatureMatches) ==
    secretConfigured /\ signatureMatches

\* a faulty variant: refund.created is handled as payment.failed
HandlerRefundAsFailed(event) ==
    CASE event \in {"payment.failed", "refund.created"} -> "wf_find"
      [] OTHER -> "wh_find"

\* part_004:176-197: the switch on the event: where the handler of each starts
Handler(event) ==
    CASE event = "payment.failed" -> "wf_find"
      [] event = "refund.created" -> "wr_report"
      [] OTHER -> "wh_find"

\* part_004:162-197: the signature is verified, then the event dispatched.
\* sig: the signature is the payload's HMAC under the configured secret
StartWebhook(p) ==
    \E event \in WebhookEvents, order \in KnownIds, secretConfigured \in BOOLEAN,
       signatureMatches \in BOOLEAN :
        LET isValid == VerifyWebhookSignature(secretConfigured, signatureMatches) IN
        /\ Begin(p, [IdleProc EXCEPT !.op = event, !.caller = "webhook", !.ext = order,
                        !.sig = secretConfigured /\ signatureMatches,
                        !.pc = IF ~isValid THEN "done" ELSE Handler(event),
                        !.res = IF ~isValid THEN "SignatureInvalid" ELSE "none"])
        /\ UNCHANGED <<impl, wallets, dbVars, lockVars, histVars>>

\* a faulty variant: only a FAILED or REFUNDED transaction counts as processed
AlreadyProcessedUnlessSuccess(status) == status \notin {"PENDING", "SUCCESS"}

\* part_004:225: transaction.status !== PaymentStatus.PENDING
AlreadyProcessed(status) == status # "PENDING"

\* part_004:213-240: handlePaymentCaptured (and handleOrderPaid) up to the
\* status update
WhFind(p) ==
    LET r == proc[p]
        t == FindByExternalId(r.ext) IN
    /\ r.pc = "wh_find"
    /\ IF t = 0
       THEN Finish(p, "TransactionNotFound")
       ELSE IF AlreadyProcessed(txns[t].status)
       THEN Finish(p, "AlreadyProcessed")
       ELSE /\ proc' = [proc EXCEPT ![p].pc = "uts_find", ![p].id = t, ![p].st = "SUCCESS",
                                    ![p].md = Meta(txns[t].keys \cup {"gatewayEvent"},
                                                   txns[t].split)]
            /\ UNCHANGED <<lockVars, last>>
    /\ UNCHANGED <<impl, wallets, dbVars, calls, histVars>>

\* part_004:252-260: handlePaymentFailed looks the transaction up
WfFind(p) ==
    LET r == proc[p]
        t == FindByExternalId(r.ext) IN
    /\ r.pc = "wf_find"
    /\ IF t = 0
       THEN Finish(p, "TransactionNotFound")
       ELSE /\ proc' = [proc EXCEPT ![p].pc = "wf_update", ![p].id = t,
                                    ![p].old = txns[t].status,
                                    ![p].oldMeta = Meta(txns[t].keys, txns[t].split)]
            /\ UNCHANGED <<lockVars, last>>
    /\ UNCHANGED <<impl, wallets, dbVars, calls, histVars>>

\* part_004:262-273: transactionRepository.updateStatus(FAILED)
WfUpdate(p) ==
    LET r == proc[p] IN
    /\ r.pc = "wf_update"
    /\ Free(txnLock, r.id, p)
    /\ txns' = UpdateStatus(txns, r.id, "FAILED",
                            Meta(r.oldMeta.keys \cup {"failureReason", "gatewayEvent"},
                                 r.oldMeta.split))
    /\ Finish(p, "ok")
    /\ UNCHANGED <<impl, wallets, balance, payouts, items, calls, histVars>>

\* part_004:287-299: handleRefundCreated logs the refund and reports it
WrReport(p) ==
    /\ proc[p].pc = "wr_report"
    /\ Finish(p, "handled")
    /\ UNCHANGED <<impl, wallets, dbVars, calls, histVars>>

----------------------------------------------------------------------------
(* WalletController.updateWalletBalance: PATCH /wallets/:id/balance, with   *)
(* an amount > 0 and an operation the validation admits                     *)

WalletAmounts == {6000, 10000}
Operations == {"ADD", "SUBTRACT"}

\* the row tx.transaction.create inserts: the next id of the table
NewTxnId == TxnCount + 1

NewTxn(type, status, amount, user, wallet, origin) ==
    [status |-> status, type |-> type, amount |-> amount, userId |-> user,
     walletId |-> wallet, externalId |-> 0, keys |-> {}, split |-> NoSplit,
     origin |-> origin]

StartUpdateWalletBalance(p) ==
    \E w \in {InstructorWallet, TaxWallet, NoWallet}, amount \in WalletAmounts,
       operation \in Operations :
        /\ Begin(p, [IdleProc EXCEPT !.op = "updateWalletBalance", !.pc = "wb_find",
                                     !.w = w, !.amt = amount, !.kind = operation])
        /\ UNCHANGED <<impl, wallets, dbVars, lockVars, histVars>>

\* wallet.controller.ts:193-201: walletRepository.findById
WbFind(p) ==
    LET r == proc[p] IN
    /\ r.pc = "wb_find"
    /\ IF r.w \notin WalletRows
       THEN Finish(p, "NotFound")
       ELSE /\ proc' = [proc EXCEPT ![p].pc = IF r.kind = "SUBTRACT" THEN "wb_check"
                                              ELSE "wb_update"]
            /\ UNCHANGED <<lockVars, last>>
    /\ UNCHANGED <<impl, wallets, dbVars, calls, histVars>>

\* a faulty variant: the balance is not compared
HasSufficientBalanceUnchecked(bal, w, amount) == w \in DOMAIN bal

\* WalletRepository.hasSufficientBalance
HasSufficientBalance(bal, w, amount) == w \in DOMAIN bal /\ bal[w] >= Dec(amount)

\* wallet.controller.ts:203-217: the balance is read and compared
WbCheck(p) ==
    LET r == proc[p] IN
    /\ r.pc = "wb_check"
    /\ IF HasSufficientBalance(balance, r.w, r.amt)
       THEN /\ proc' = [proc EXCEPT ![p].pc = "wb_update"]
            /\ UNCHANGED <<lockVars, last>>
       ELSE Finish(p, "InsufficientFunds")
    /\ UNCHANGED <<impl, wallets, dbVars, calls, histVars>>

\* WalletRepository.updateBalance: one relative UPDATE, its own unit
UpdateBalance(bal, w, amount, operation) ==
    [bal EXCEPT ![w] = IF operation = "increment" THEN @ + Dec(amount) ELSE @ - Dec(amount)]

\* wallet.controller.ts:219-231
WbUpdate(p) ==
    LET r == proc[p] IN
    /\ r.pc = "wb_update"
    /\ Free(walletLock, r.w, p)
    /\ balance' = UpdateBalance(balance, r.w, r.amt,
                                IF r.kind = "ADD" THEN "increment" ELSE "decrement")
    /\ Finish(p, "ok")
    /\ UNCHANGED <<impl, wallets, txns, payouts, items, calls, histVars>>

----------------------------------------------------------------------------
(* TransactionService.createTransactionWithWalletUpdate *)

CreatedTypes == {"CHARGE", "REFUND", "ADJUSTMENT"}

\* transaction.service.ts:46: autoUpdateWallet && config.affectsWallet &&
\* data.walletId && config.operation
UpdatesWallet(r) ==
    r.auto /\ AffectsWallet(r.kind) /\ r.w # NoWallet /\ Operation(r.kind) # "null"

\* transaction.service.ts:24-46: the insert, then the condition of the wallet update
StartCreateTransaction(p) ==
    \E type \in CreatedTypes, amount \in WalletAmounts,
       walletId \in {InstructorWallet, NoWallet}, autoUpdateWallet \in BOOLEAN :
        LET r == [IdleProc EXCEPT !.op = "createTransactionWithWalletUpdate",
                                  !.w = walletId, !.amt = amount, !.kind = type,
                                  !.auto = autoUpdateWallet] IN
        /\ Begin(p, [r EXCEPT !.pc = IF UpdatesWallet(r) THEN "ct_wallet" ELSE "ct_commit"])
        /\ UNCHANGED <<impl, wallets, dbVars, lockVars, histVars>>

\* transaction.service.ts:46-60: the wallet row read, the balance verified for SUBTRACT
CtWallet(p) ==
    LET r == proc[p] IN
    /\ r.pc = "ct_wallet"
    /\ IF r.w \notin WalletRows
       THEN Throw(p, "NotFound")
       ELSE IF Operation(r.kind) = "SUBTRACT" /\ balance[r.w] < Dec(r.amt)
       THEN Throw(p, "InsufficientFunds")
       ELSE /\ proc' = [proc EXCEPT ![p].pc = "ct_commit"]
            /\ UNCHANGED <<lockVars, last>>
    /\ UNCHANGED <<impl, wallets, dbVars, calls, histVars>>

\* a faulty variant: no index on externalId
ExternalIdTakenNever(rows, ext) == FALSE

\* migration.sql:89, Transaction_externalId_key: an insert with an external
\* reference that a row already has is refused (0 stands for null)
ExternalIdTaken(rows, ext) ==
    ext # 0 /\ \E t \in TxnIds : rows[t].status # "absent" /\ rows[t].externalId = ext

\* transaction.service.ts:28-40, 62-73: the insert, the wallet update (if
\* any), commit; the unit fails when the index refuses the insert
CtCommit(p) ==
    LET r == proc[p] IN
    /\ r.pc = "ct_commit"
    /\ IF ExternalIdTaken(txns, r.ext)
       THEN Throw(p, "Conflict") /\ UNCHANGED <<balance, txns>>
       ELSE /\ NewTxnId \in TxnIds
            /\ UpdatesWallet(r) => Free(walletLock, r.w, p)
            /\ balance' = IF UpdatesWallet(r)
                          THEN ApplyOperation(balance, r.w, Operation(r.kind), r.amt)
                          ELSE balance
            /\ txns' = [txns EXCEPT ![NewTxnId] =
                            [NewTxn(r.kind, "PENDING", r.amt, NoUser, r.w, 0)
                                EXCEPT !.externalId = r.ext]]
            /\ Finish(p, "ok")
    /\ UNCHANGED <<impl, wallets, payouts, items, calls, histVars>>

----------------------------------------------------------------------------
(* TransactionController.createTransaction: POST /transactions, and        *)
(* PaymentController.createOrder / createPaymentLink                       *)

\* the amounts a creation request may carry, and the external references: 0
\* for none, else the gateway's id of an order or a link
CreateAmounts == {0 - 1, 0, 6000}
ExternalRefs == {0, 1, 2}

\* a faulty variant: every amount is admitted
ValidAmountAny(amount) == TRUE

\* transaction.controller.ts:29, payment.controller.ts:14, 167: amount <= 0
\* is answered 400
ValidAmount(amount) == amount > 0

\* transaction.controller.ts:16-50: the amount verified, then
\* createTransactionWithWalletUpdate with autoUpdateWallet: false
StartCreateTransactionRequest(p) ==
    \E type \in CreatedTypes, amount \in CreateAmounts,
       walletId \in {InstructorWallet, NoWallet}, externalId \in ExternalRefs :
        LET r == [IdleProc EXCEPT !.op = "createTransaction", !.w = walletId,
                                  !.amt = amount, !.kind = type, !.ext = externalId,
                                  !.auto = FALSE] IN
        /\ Begin(p, IF ~ValidAmount(amount)
                    THEN [r EXCEPT !.pc = "done", !.res = "InvalidAmount"]
                    ELSE [r EXCEPT !.pc = IF UpdatesWallet(r) THEN "ct_wallet"
                                          ELSE "ct_commit"])
        /\ UNCHANGED <<impl, wallets, dbVars, lockVars, histVars>>

\* payment.controller.ts:10-30, 150-185: the amount verified; part_004:19-38,
\* 303-328: the gateway creates the order or the link and names it
StartCreatePaymentOrder(p) ==
    \E op \in {"createPaymentOrder", "createPaymentLink"}, amount \in CreateAmounts,
       gatewayUp \in BOOLEAN, gatewayId \in ExternalRefs \ {0} :
        LET r == [IdleProc EXCEPT !.op = op, !.w = InstructorWallet, !.user = Instructor,
                                  !.amt = amount, !.kind = "CHARGE", !.ext = gatewayId] IN
        /\ Begin(p, IF ~ValidAmount(amount)
                    THEN [r EXCEPT !.pc = "done", !.res = "InvalidAmount"]
                    ELSE IF ~gatewayUp
                    THEN [r EXCEPT !.pc = "done", !.res = "ProviderUnavailable"]
                    ELSE [r EXCEPT !.pc = "po_create"])
        /\ UNCHANGED <<impl, wallets, dbVars, lockVars, histVars>>

\* part_004:41-55, 331-346: transactionRepository.create, one INSERT of a
\* PENDING CHARGE carrying the gateway's id as its external reference
PoCreate(p) ==
    LET r == proc[p] IN
    /\ r.pc = "po_create"
    /\ IF ExternalIdTaken(txns, r.ext)
       THEN Throw(p, "Conflict") /\ txns' = txns
       ELSE /\ NewTxnId \in TxnIds
            /\ txns' = [txns EXCEPT ![NewTxnId] =
                            PendingCharge(r.ext, r.amt, <<r.user, r.w>>)]
            /\ Finish(p, "ok")
    /\ UNCHANGED <<impl, wallets, balance, payouts, items, calls, histVars>>

----------------------------------------------------------------------------
(* PlatformWalletService.transferTaxToGovernment *)

StartTransferTax(p) ==
    \E amount \in WalletAmounts :
        /\ Begin(p, [IdleProc EXCEPT !.op = "transferTaxToGovernment", !.pc = "tt_get",
                                     !.amt = amount])
        /\ UNCHANGED <<impl, wallets, dbVars, lockVars, histVars>>

\* platformWallet.service.ts:168-172: getTaxWallet, the balance compared
TtGet(p) ==
    LET r == proc[p]
        w == FindWalletByType("PLATFORM_TAX") IN
    /\ r.pc = "tt_get"
    /\ IF balance[w] < Dec(r.amt)
       THEN Finish(p, "InsufficientFunds")
       ELSE /\ proc' = [proc EXCEPT ![p].pc = "tt_commit", ![p].w = w]
            /\ UNCHANGED <<lockVars, last>>
    /\ UNCHANGED <<impl, wallets, dbVars, calls, histVars>>

\* platformWallet.service.ts:174-208: the decrement, the TAX transaction, commit
TtCommit(p) ==
    LET r == proc[p] IN
    /\ r.pc = "tt_commit"
    /\ NewTxnId \in TxnIds
    /\ Free(walletLock, r.w, p)
    /\ balance' = ApplyOperation(balance, r.w, "SUBTRACT", r.amt)
    /\ txns' = [txns EXCEPT ![NewTxnId] = NewTxn("TAX", "SUCCESS", r.amt, NoUser, r.w, 0)]
    /\ Finish(p, "ok")
    /\ UNCHANGED <<impl, wallets, payouts, items, calls, histVars>>

----------------------------------------------------------------------------
(* PlatformWalletService.getCommissionWallet / getTaxWallet, called by the  *)
(* admin balance endpoints.  Neither runs inside a unit of work.            *)

PlatformKinds == {"PLATFORM_COMMISSION", "PLATFORM_TAX"}

\* the id the sequence of the Wallet table hands out next
NewWalletId ==
    IF WalletRows = {} THEN 1
    ELSE (CHOOSE w \in WalletRows : \A v \in WalletRows : v <= w) + 1

StartGetPlatformWallet(p) ==
    \E kind \in PlatformKinds :
        /\ Begin(p, [IdleProc EXCEPT !.op = "getPlatformWallet", !.pc = "gw_find",
                                     !.kind = kind])
        /\ UNCHANGED <<impl, wallets, dbVars, lockVars, histVars>>

\* prisma.wallet.findFirst({ where: { type } }): the row is returned when
\* there is one
GwFind(p) ==
    LET r == proc[p]
        w == FindWalletByType(r.kind) IN
    /\ r.pc = "gw_find"
    /\ IF w # NoWallet
       THEN /\ proc' = [proc EXCEPT ![p] = IdleProc]
            /\ last' = Ended([r EXCEPT !.w = w], "ok")
       ELSE /\ proc' = [proc EXCEPT ![p].pc = "gw_create"]
            /\ last' = last
    /\ UNCHANGED <<impl, wallets, dbVars, lockVars, calls, histVars>>

\* prisma.wallet.create({ userId: null, type, balance: 0 }): the new row is
\* returned
GwCreate(p) ==
    LET r == proc[p]
        w == NewWalletId IN
    /\ r.pc = "gw_create"
    /\ w \in WalletIds
    /\ wallets' = [wallets EXCEPT ![w] = [type |-> r.kind, userId |-> NoUser]]
    /\ balance' = [balance EXCEPT ![w] = 0]
    /\ proc' = [proc EXCEPT ![p] = IdleProc]
    /\ last' = Ended([r EXCEPT !.w = w], "ok")
    /\ UNCHANGED <<impl, txns, payouts, items, lockVars, calls, histVars>>

----------------------------------------------------------------------------
(* TransactionService.processRefund *)

StartProcessRefund(p) ==
    \E id \in KnownIds :
        /\ Begin(p, [IdleProc EXCEPT !.op = "processRefund", !.pc = "rf_find", !.id = id])
        /\ UNCHANGED <<impl, wallets, dbVars, lockVars, histVars>>

\* platformWallet.service.ts:575-585: the original transaction, its status
RfFind(p) ==
    LET r == proc[p] IN
    /\ r.pc = "rf_find"
    /\ IF ~Exists(r.id)
       THEN Throw(p, "NotFound")
       ELSE IF txns[r.id].status # "SUCCESS"
       THEN Throw(p, "NotSuccessful")
       ELSE /\ proc' = [proc EXCEPT ![p].pc = "rf_existing", ![p].old = txns[r.id].status,
                                    ![p].amt = txns[r.id].amount,
                                    ![p].w = txns[r.id].walletId,
                                    ![p].user = txns[r.id].userId]
            /\ UNCHANGED <<lockVars, last>>
    /\ UNCHANGED <<impl, wallets, dbVars, calls, histVars>>

\* a faulty variant: earlier refunds are not looked for
RefundsOfNone(id) == {}

\* the REFUND rows whose metadata.originalTransactionId is id
RefundsOf(id) == {t \in TxnIds : txns[t].type = "REFUND" /\ txns[t].origin = id}

\* platformWallet.service.ts:587-601: a refund of it already exists
RfExisting(p) ==
    LET r == proc[p] IN
    /\ r.pc = "rf_existing"
    /\ IF RefundsOf(r.id) # {}
       THEN Throw(p, "AlreadyRefunded")
       ELSE /\ proc' = [proc EXCEPT ![p].pc = "rf_mark"]
            /\ UNCHANGED <<lockVars, last>>
    /\ UNCHANGED <<impl, wallets, dbVars, calls, histVars>>

\* platformWallet.service.ts:603-624: the REFUND row inserted, the original
\* updated to REFUNDED: its row is locked until the unit ends
RfMark(p) ==
    LET r == proc[p] IN
    /\ r.pc = "rf_mark"
    /\ Free(txnLock, r.id, p)
    /\ txnLock' = [txnLock EXCEPT ![r.id] = p]
    /\ proc' = [proc EXCEPT ![p].pc = IF r.w \in WalletRows THEN "rf_wallet"
                                      ELSE "rf_commit"]
    /\ UNCHANGED <<impl, wallets, dbVars, walletLock, payoutLock, calls, last, histVars>>

\* a faulty variant: the balance is not compared
LessThanRefundNever(bal, w, amount) == FALSE

\* platformWallet.service.ts:633: wallet.balance.lessThan(originalTransaction.amount)
LessThanRefund(bal, w, amount) == bal[w] < Dec(amount)

\* platformWallet.service.ts:626-635: the wallet row read, the balance compared
RfWallet(p) ==
    LET r == proc[p] IN
    /\ r.pc = "rf_wallet"
    /\ IF LessThanRefund(balance, r.w, r.amt)
       THEN Throw(p, "InsufficientFunds")
       ELSE /\ proc' = [proc EXCEPT ![p].pc = "rf_commit"]
            /\ UNCHANGED <<lockVars, last>>
    /\ UNCHANGED <<impl, wallets, dbVars, calls, histVars>>

\* platformWallet.service.ts:637-655: the decrement (if a wallet), commit
RfCommit(p) ==
    LET r == proc[p] IN
    /\ r.pc = "rf_commit"
    /\ NewTxnId \in TxnIds
    /\ r.w \in WalletRows => Free(walletLock, r.w, p)
    /\ balance' = IF r.w \in WalletRows
                  THEN ApplyOperation(balance, r.w, "SUBTRACT", r.amt)
                  ELSE balance
    /\ txns' = [txns EXCEPT ![r.id].status = "REFUNDED",
                            ![NewTxnId] = NewTxn("REFUND", "SUCCESS", r.amt, r.user,
                                                 r.w, r.id)]
    /\ Finish(p, "ok")
    /\ UNCHANGED <<impl, wallets, payouts, items, calls, histVars>>

----------------------------------------------------------------------------
(* PayoutService.schedulePayout *)

MinimumAmount == 1000

PayoutAmounts == {MinimumAmount - 1, MinimumAmount, 2 * MinimumAmount}

\* the wallet a payout is asked for: the instructor's, or an id that names no row
PayoutWallets == {InstructorWallet, NoWallet}

PayoutExists(k) == k \in PayoutIds /\ payouts[k].status # "absent"
PayoutCount == Cardinality({k \in PayoutIds : payouts[k].status # "absent"})
NewPayoutId == PayoutCount + 1

\* the ids a payout request may name: those of the rows, and one that names no row
KnownPayoutIds == {k \in PayoutIds : k <= PayoutCount + 1}

StartSchedulePayout(p) ==
    \E instructorId \in {Instructor, OtherInstructor}, walletId \in PayoutWallets,
       amount \in PayoutAmounts, scheduledAt \in {NoDate} \cup Dates :
        /\ Begin(p, [IdleProc EXCEPT !.op = "schedulePayout", !.pc = "sp_wallet",
                                     !.user = instructorId, !.w = walletId,
                                     !.amt = amount, !.at = scheduledAt])
        /\ UNCHANGED <<impl, wallets, dbVars, lockVars, histVars>>

\* a faulty variant: the minimum is not enforced
ScheduleErrorWithoutMinimum(w, user, amount) ==
    IF w \notin WalletRows THEN "NotFound"
    ELSE IF WalletUser(w) # user THEN "NotOwner"
    ELSE IF balance[w] < Dec(amount) THEN "InsufficientFunds"
    ELSE "none"

\* payout.service.ts:26-44: the error the validation throws, "none" when it passes
ScheduleError(w, user, amount) ==
    IF w \notin WalletRows THEN "NotFound"
    ELSE IF WalletUser(w) # user THEN "NotOwner"
    ELSE IF amount < MinimumAmount THEN "BelowMinimum"
    ELSE IF balance[w] < Dec(amount) THEN "InsufficientFunds"
    ELSE "none"

\* payout.service.ts:22-44: the wallet row read; owner, minimum and balance verified
SpWallet(p) ==
    LET r == proc[p] IN
    /\ r.pc = "sp_wallet"
    /\ IF ScheduleError(r.w, r.user, r.amt) # "none"
       THEN Throw(p, ScheduleError(r.w, r.user, r.amt))
       ELSE /\ proc' = [proc EXCEPT ![p].pc = "sp_create"]
            /\ UNCHANGED <<lockVars, last>>
    /\ UNCHANGED <<impl, wallets, dbVars, calls, histVars>>

\* payout.service.ts:46-59: the payout row inserted, commit
SpCreate(p) ==
    LET r == proc[p] IN
    /\ r.pc = "sp_create"
    /\ NewPayoutId \in PayoutIds
    /\ payouts' = [payouts EXCEPT ![NewPayoutId] =
                      [status |-> IF r.at # NoDate THEN "SCHEDULED" ELSE "PENDING",
                       instructorId |-> r.user, walletId |-> r.w, amount |-> r.amt,
                       scheduledAt |-> r.at, cancelled |-> FALSE, retried |-> FALSE]]
    /\ Finish(p, "ok")
    /\ UNCHANGED <<impl, wallets, balance, txns, items, calls, histVars>>

----------------------------------------------------------------------------
(* PayoutService.processPayout *)

StartProcessPayout(p) ==
    \E payoutId \in KnownPayoutIds :
        /\ Begin(p, [IdleProc EXCEPT !.op = "processPayout", !.pc = "pp_find",
                                     !.id = payoutId])
        /\ UNCHANGED <<impl, wallets, dbVars, lockVars, histVars>>

\* a faulty variant: every payout that did not fail is processed
ProcessableUnlessFailed(status) == status # "FAILED"

\* payout.service.ts:87: the statuses a payout is processed from
Processable(status) == status \in {"PENDING", "SCHEDULED"}

\* a faulty variant: the balance is not compared at processing time
LessThanPayoutNever(bal, w, amount) == FALSE

\* payout.service.ts:92: payout.wallet.balance.lessThan(payout.amount)
LessThanPayout(bal, w, amount) == bal[w] < Dec(amount)

\* payout.service.ts:77-94: the payout with its wallet read; status and balance verified
PpFind(p) ==
    LET r == proc[p] IN
    /\ r.pc = "pp_find"
    /\ IF ~PayoutExists(r.id)
       THEN Throw(p, "NotFound")
       ELSE IF ~Processable(payouts[r.id].status)
       THEN Throw(p, "CannotProcess")
       ELSE IF LessThanPayout(balance, payouts[r.id].walletId, payouts[r.id].amount)
       THEN Throw(p, "InsufficientFunds")
       ELSE /\ proc' = [proc EXCEPT ![p].pc = "pp_processing",
                                    ![p].old = payouts[r.id].status,
                                    ![p].amt = payouts[r.id].amount,
                                    ![p].w = payouts[r.id].walletId,
                                    ![p].user = payouts[r.id].instructorId]
            /\ UNCHANGED <<lockVars, last>>
    /\ UNCHANGED <<impl, wallets, dbVars, calls, histVars>>

\* payout.service.ts:97-107: the payout updated to PROCESSING, by id alone: its
\* row is locked until the unit ends
PpProcessing(p) ==
    LET r == proc[p] IN
    /\ r.pc = "pp_processing"
    /\ Free(payoutLock, r.id, p)
    /\ payoutLock' = [payoutLock EXCEPT ![r.id] = p]
    /\ proc' = [proc EXCEPT ![p].pc = "pp_commit"]
    /\ UNCHANGED <<impl, wallets, dbVars, txnLock, walletLock, calls, last, histVars>>

\* a faulty variant: the first failure ends the loop
SweptUntilFailure(r, outcome) ==
    [r EXCEPT !.pc = "sw_next", !.rest = IF outcome = "failed" THEN <<>> ELSE Tail(@),
              !.results = Append(@, <<Head(r.rest), outcome>>),
              !.processed = IF outcome = "success" THEN @ + 1 ELSE @,
              !.failed = IF outcome = "failed" THEN @ + 1 ELSE @,
              !.res = "none", !.old = "none", !.amt = 0, !.w = NoWallet,
              !.user = NoUser]

\* payout.service.ts:188-216: the loop's bookkeeping for the payout just
\* handled: an entry pushed to results, a counter incremented, the next payout
Swept(r, outcome) ==
    [r EXCEPT !.pc = "sw_next", !.rest = Tail(@),
              !.results = Append(@, <<Head(r.rest), outcome>>),
              !.processed = IF outcome = "success" THEN @ + 1 ELSE @,
              !.failed = IF outcome = "failed" THEN @ + 1 ELSE @,
              !.res = "none", !.old = "none", !.amt = 0, !.w = NoWallet,
              !.user = NoUser]

\* processPayout returns: to the sweep's loop, or to the client
Return(p) ==
    IF proc[p].caller = "sweep"
    THEN /\ proc' = [proc EXCEPT ![p] = Swept(proc[p], "success")]
         /\ last' = last
         /\ txnLock' = Release(txnLock, p)
         /\ walletLock' = Release(walletLock, p)
         /\ payoutLock' = Release(payoutLock, p)
    ELSE Finish(p, "ok")

\* payout.service.ts:110-170: the PAYOUT transaction, the decrement, the payout
\* item, the payout updated to COMPLETED, commit
PpCommit(p) ==
    LET r == proc[p] IN
    /\ r.pc = "pp_commit"
    /\ NewTxnId \in TxnIds
    /\ Free(walletLock, r.w, p)
    /\ txns' = [txns EXCEPT ![NewTxnId] = NewTxn("PAYOUT", "SUCCESS", r.amt, r.user,
                                                r.w, r.id)]
    /\ balance' = ApplyOperation(balance, r.w, "SUBTRACT", r.amt)
    /\ items' = items \cup {[payoutId |-> r.id, transactionId |-> NewTxnId,
                             amount |-> r.amt]}
    /\ payouts' = [payouts EXCEPT ![r.id].status = "COMPLETED"]
    /\ debited' = [debited EXCEPT ![r.id] = @ + 1]
    /\ Return(p)
    /\ UNCHANGED <<impl, wallets, calls, credited>>

----------------------------------------------------------------------------
(* PayoutService.cancelPayout *)

StartCancelPayout(p) ==
    \E payoutId \in KnownPayoutIds :
        /\ Begin(p, [IdleProc EXCEPT !.op = "cancelPayout", !.pc = "cp_find",
                                     !.id = payoutId])
        /\ UNCHANGED <<impl, wallets, dbVars, lockVars, histVars>>

\* the metadata of a payout as a request read it: the markers it carries
MarksOf(k) ==
    (IF payouts[k].cancelled THEN {<<k, "cancelled">>} ELSE {})
        \cup (IF payouts[k].retried THEN {<<k, "retried">>} ELSE {})

\* payout.service.ts:236: the statuses a payout is cancelled from
Cancellable(status) == status \in {"PENDING", "SCHEDULED"}

\* payout.service.ts:229-238: payoutRepository.findById, the status verified
CpFind(p) ==
    LET r == proc[p] IN
    /\ r.pc = "cp_find"
    /\ IF ~PayoutExists(r.id)
       THEN Throw(p, "NotFound")
       ELSE IF ~Cancellable(payouts[r.id].status)
       THEN Throw(p, "CannotCancel")
       ELSE /\ proc' = [proc EXCEPT ![p].pc = "cp_update",
                                    ![p].old = payouts[r.id].status,
                                    ![p].marks = MarksOf(r.id)]
            /\ UNCHANGED <<lockVars, last>>
    /\ UNCHANGED <<impl, wallets, dbVars, calls, histVars>>

\* payout.service.ts:240-247: payoutRepository.updateStatus(FAILED) with
\* metadata.cancelled, one UPDATE by id
CpUpdate(p) ==
    LET r == proc[p] IN
    /\ r.pc = "cp_update"
    /\ Free(payoutLock, r.id, p)
    /\ payouts' = [payouts EXCEPT ![r.id].status = "FAILED", ![r.id].cancelled = TRUE,
                                  ![r.id].retried = <<r.id, "retried">> \in r.marks]
    /\ Finish(p, "ok")
    /\ UNCHANGED <<impl, wallets, balance, txns, items, calls, histVars>>

----------------------------------------------------------------------------
(* PayoutService.retryPayout *)

StartRetryPayout(p) ==
    \E payoutId \in KnownPayoutIds :
        /\ Begin(p, [IdleProc EXCEPT !.op = "retryPayout", !.pc = "rt_find",
                                     !.id = payoutId])
        /\ UNCHANGED <<impl, wallets, dbVars, lockVars, histVars>>

\* payout.service.ts:320-328: payoutRepository.findById, only FAILED is retried
RtFind(p) ==
    LET r == proc[p] IN
    /\ r.pc = "rt_find"
    /\ IF ~PayoutExists(r.id)
       THEN Throw(p, "NotFound")
       ELSE IF payouts[r.id].status # "FAILED"
       THEN Throw(p, "NotFailed")
       ELSE /\ proc' = [proc EXCEPT ![p].pc = "rt_reset", ![p].marks = MarksOf(r.id)]
            /\ UNCHANGED <<lockVars, last>>
    /\ UNCHANGED <<impl, wallets, dbVars, calls, histVars>>

\* a faulty variant: the status is reset and the metadata left alone
ResetOnly(pays, id, marks) == [pays EXCEPT ![id].status = "PENDING"]

\* payout.service.ts:331-337: payoutRepository.updateStatus(PENDING) with the
\* metadata found and retried: true
Reset(pays, id, marks) ==
    [pays EXCEPT ![id].status = "PENDING", ![id].retried = TRUE,
                 ![id].cancelled = <<id, "cancelled">> \in marks]

\* payout.service.ts:331-340: the payout reset in a unit of its own, then
\* processPayout
RtReset(p) ==
    LET r == proc[p] IN
    /\ r.pc = "rt_reset"
    /\ Free(payoutLock, r.id, p)
    /\ payouts' = Reset(payouts, r.id, r.marks)
    /\ proc' = [proc EXCEPT ![p].pc = "pp_find"]
    /\ UNCHANGED <<impl, wallets, balance, txns, items, lockVars, calls, last, histVars>>

----------------------------------------------------------------------------
(* PayoutService.processScheduledPayouts *)

StartSweep(p) ==
    \E now \in Dates :
        /\ Begin(p, [IdleProc EXCEPT !.op = "processScheduledPayouts", !.pc = "sw_find",
                                     !.caller = "sweep", !.at = now])
        /\ UNCHANGED <<impl, wallets, dbVars, lockVars, histVars>>

\* PayoutRepository.findScheduledPayouts: the payouts SCHEDULED at or before the date
FindScheduledPayouts(beforeDate) ==
    {k \in PayoutIds : payouts[k].status = "SCHEDULED"
                       /\ payouts[k].scheduledAt <= beforeDate}

\* the orders a findMany without orderBy may return the rows in
Listings(S) ==
    {q \in [1..Cardinality(S) -> S] : \A i, j \in 1..Cardinality(S) : q[i] = q[j] => i = j}

\* payout.service.ts:181-186: the due payouts are read
SwFind(p) ==
    LET r == proc[p] IN
    /\ r.pc = "sw_find"
    /\ \E q \in Listings(FindScheduledPayouts(r.at)) :
          proc' = [proc EXCEPT ![p].pc = "sw_next", ![p].due = q, ![p].rest = q,
                               ![p].marks = UNION {MarksOf(k) :
                                                     k \in FindScheduledPayouts(r.at)}]
    /\ UNCHANGED <<impl, wallets, dbVars, lockVars, calls, last, histVars>>

\* payout.service.ts:188-190, 218-222: the next payout is handed to
\* processPayout; after the last one the outcome is returned
SwNext(p) ==
    LET r == proc[p] IN
    /\ r.pc = "sw_next"
    /\ IF r.rest = <<>>
       THEN Finish(p, "ok")
       ELSE /\ proc' = [proc EXCEPT ![p].pc = "pp_find", ![p].id = Head(r.rest)]
            /\ UNCHANGED <<lockVars, last>>
    /\ UNCHANGED <<impl, wallets, dbVars, calls, histVars>>

\* payout.service.ts:197-215: the catch block marks the payout FAILED with the
\* metadata of the row as it was listed, and records the failure
SwFailed(p) ==
    LET r == proc[p] IN
    /\ r.pc = "sw_failed"
    /\ Free(payoutLock, Head(r.rest), p)
    /\ payouts' = [payouts EXCEPT
                      ![Head(r.rest)].status = "FAILED",
                      ![Head(r.rest)].cancelled = <<Head(r.rest), "cancelled">> \in r.marks,
                      ![Head(r.rest)].retried = <<Head(r.rest), "retried">> \in r.marks]
    /\ proc' = [proc EXCEPT ![p] = Swept(r, "failed")]
    /\ UNCHANGED <<impl, wallets, balance, txns, items, lockVars, calls, last, histVars>>

----------------------------------------------------------------------------
(* PayoutController.updatePayoutStatus: PATCH /payouts/:id/status.  The     *)
(* validation admits every status of the enum.                              *)

StartUpdatePayoutStatus(p) ==
    \E payoutId \in KnownPayoutIds, status \in PayoutStatus :
        /\ Begin(p, [IdleProc EXCEPT !.op = "updatePayoutStatus", !.pc = "us_update",
                                     !.id = payoutId, !.st = status])
        /\ UNCHANGED <<impl, wallets, dbVars, lockVars, histVars>>

\* PayoutRepository.updateStatus: one UPDATE by id, whatever the row's status;
\* it throws when no row has the id
UsUpdate(p) ==
    LET r == proc[p] IN
    /\ r.pc = "us_update"
    /\ IF ~PayoutExists(r.id)
       THEN Throw(p, "NotFound") /\ payouts' = payouts
       ELSE /\ Free(payoutLock, r.id, p)
            /\ payouts' = [payouts EXCEPT ![r.id].status = r.st]
            /\ Finish(p, "ok")
    /\ UNCHANGED <<impl, wallets, balance, txns, items, calls, histVars>>

----------------------------------------------------------------------------
(* PayoutService.calculatePayoutAmount: POST /payouts/calculate-amount      *)

\* DEFAULT_PAYOUT_CONFIG
ProcessingFee == 10
ProcessingFeeType == "FLAT"

GrossAmounts == (0..MaxAmount) \cup {6690}

\* payout.service.ts:300-305: the fee, flat or a percentage of the gross amount
Fee(feeType, grossAmount) ==
    IF feeType = "FLAT" THEN Dec(ProcessingFee)
    ELSE (Dec(grossAmount) * ProcessingFee) \div 100

\* a faulty variant: the net amount is not held at zero
NetAmountUnclamped(grossAmount, fee) == Dec(grossAmount) - fee

\* payout.service.ts:307-312: net.greaterThan(0) ? net : '0'
NetAmount(grossAmount, fee) ==
    IF Dec(grossAmount) - fee > 0 THEN Dec(grossAmount) - fee ELSE 0

\* the preview: grossAmount, processingFee, netAmount
CalculatePayoutAmount(feeType, grossAmount) ==
    <<Dec(grossAmount), Fee(feeType, grossAmount),
      NetAmount(grossAmount, Fee(feeType, grossAmount))>>

\* part_001:380-390: the gross amount verified
StartCalculatePayoutAmount(p) ==
    \E grossAmount \in GrossAmounts :
        LET r == [IdleProc EXCEPT !.op = "calculatePayoutAmount", !.amt = grossAmount] IN
        /\ Begin(p, IF grossAmount <= 0
                    THEN [r EXCEPT !.pc = "done", !.res = "InvalidAmount"]
                    ELSE [r EXCEPT !.pc = "fee_calc"])
        /\ UNCHANGED <<impl, wallets, dbVars, lockVars, histVars>>

\* part_001:392-397: the preview computed and returned
FeeCalc(p) ==
    LET r == proc[p] IN
    /\ r.pc = "fee_calc"
    /\ proc' = [proc EXCEPT ![p] = IdleProc]
    /\ last' = Ended([r EXCEPT !.results = CalculatePayoutAmount(ProcessingFeeType, r.amt)],
                     "ok")
    /\ UNCHANGED <<impl, wallets, dbVars, lockVars, calls, histVars>>

----------------------------------------------------------------------------
(* The store before the requests arrive *)

TypeOK ==
    /\ impl \in {"split", "config"}
    /\ DOMAIN balance = WalletIds
    /\ DOMAIN wallets = WalletIds
    /\ \A t \in TxnIds : txns[t].status \in PaymentStatus \cup {"absent"}
    /\ \A k \in PayoutIds : payouts[k].status \in PayoutStatus \cup {"absent"}
    /\ calls \in Nat

\* a store with the given wallets, balances, transactions and payouts, no
\* request in flight
StoreWith(i, table, bal, rows, pays) ==
    /\ impl = i
    /\ wallets = table
    /\ balance = bal
    /\ txns = rows
    /\ payouts = pays
    /\ items = {}
    /\ txnLock = [t \in TxnIds |-> NoProc]
    /\ walletLock = [w \in WalletIds |-> NoProc]
    /\ payoutLock = [k \in PayoutIds |-> NoProc]
    /\ proc = [p \in Procs |-> IdleProc]
    /\ calls = 0
    /\ last = NoCall
    /\ credited = [t \in TxnIds |-> 0]
    /\ debited = [k \in PayoutIds |-> 0]

\* the same with no payout
StoreOf(i, table, bal, rows) ==
    StoreWith(i, table, bal, rows, [k \in PayoutIds |-> NoPayout])

\* the seeded store with the given balances and at most one transaction
Store(i, bal, first) ==
    StoreOf(i, Seeded, bal, [t \in TxnIds |-> IF t = FirstOrder THEN first ELSE NoTxn])

Empty == [w \in WalletIds |-> 0]

Funded(instructor, tax) ==
    [w \in WalletIds |-> IF w = InstructorWallet THEN Dec(instructor)
                         ELSE IF w = TaxWallet THEN Dec(tax) ELSE 0]

----------------------------------------------------------------------------
(* The ledger: status updates, payment verifications and gateway webhooks *)

\* no order was placed yet, or one was and its transaction is PENDING;
\* nothing was credited
Init ==
    \E i \in {"split", "config"},
       first \in {NoTxn} \cup {PendingCharge(FirstOrder, a, o) :
                                 a \in ChargeAmounts, o \in OrderOwners} :
        Store(i, Empty, first)

UpdateTransactionStatus(p) ==
    \/ UtsFind(p)
    \/ UtsUpdateOnly(p)
    \/ UtsUpdate(p)
    \/ UtsWallets(p)
    \/ UtsCredit(p)
    \/ UtsConfig(p)
    \/ UtsApply(p)
    \/ UtsCommit(p)

\* a request of the gateway's traffic arrives
Confirm(p) ==
    \/ StartVerifyPayment(p)
    \/ StartWebhook(p)

\* a request in flight runs its next statement
Run(p) ==
    \/ UpdateTransactionStatus(p)
    \/ VpFind(p)
    \/ VpFailed(p)
    \/ VpMarkFailed(p)
    \/ WhFind(p)
    \/ WfFind(p)
    \/ WfUpdate(p)
    \/ WrReport(p)

Next ==
    \E p \in Procs :
        \/ calls < MaxCalls /\ (StartUpdateStatus(p) \/ Confirm(p))
        \/ Run(p)

Spec == Init /\ [][Next]_vars

\* the same requests, each arriving when none is in flight
NextSeq ==
    \E p \in Procs :
        \/ calls < MaxSeqCalls /\ Quiet /\ (StartUpdateStatus(p) \/ Confirm(p))
        \/ Run(p)

SpecSeq == Init /\ [][NextSeq]_vars

\* the gateway's traffic alone: verifications and webhooks, concurrent
NextConfirm ==
    \E p \in Procs :
        \/ calls < MaxCalls /\ Confirm(p)
        \/ Run(p)

SpecConfirm == Init /\ [][NextConfirm]_vars

----------------------------------------------------------------------------
(* The revenue split: orders of every gross amount, settled by the split    *)
(* implementation through status updates                                    *)

SplitAmounts == (1..MaxAmount) \cup {10000}

InitSplit ==
    \E a \in SplitAmounts, o \in OrderOwners :
        Store("split", Empty, PendingCharge(FirstOrder, a, o))

NextSplit ==
    \E p \in Procs :
        \/ calls < MaxSeqCalls /\ Quiet /\ StartUpdateStatus(p)
        \/ UtsFind(p)
        \/ UtsUpdateOnly(p)
        \/ UtsUpdate(p)
        \/ UtsWallets(p)
        \/ UtsCredit(p)

SpecSplit == InitSplit /\ [][NextSplit]_vars

----------------------------------------------------------------------------
(* The wallets under concurrent balance operations *)

WalletFunds == {0, 10000}

\* the instructor's order of 10000, settled
SettledCharge ==
    [PendingCharge(FirstOrder, 10000, <<Instructor, InstructorWallet>>)
        EXCEPT !.status = "SUCCESS"]

InitWallet ==
    \E funds \in WalletFunds, first \in {NoTxn, SettledCharge} :
        Store("config", Funded(funds, funds), first)

NextWallet ==
    \E p \in Procs :
        \/ calls < MaxCalls /\ StartUpdateWalletBalance(p)
        \/ calls < MaxCalls /\ StartCreateTransaction(p)
        \/ calls < MaxCalls /\ StartTransferTax(p)
        \/ calls < MaxCalls /\ StartProcessRefund(p)
        \/ WbFind(p) \/ WbCheck(p) \/ WbUpdate(p)
        \/ CtWallet(p) \/ CtCommit(p)
        \/ TtGet(p) \/ TtCommit(p)
        \/ RfFind(p) \/ RfExisting(p) \/ RfMark(p) \/ RfWallet(p) \/ RfCommit(p)

SpecWallet == InitWallet /\ [][NextWallet]_vars

----------------------------------------------------------------------------
(* Refunds of a settled order, with status updates, one after the other *)

InitRefund ==
    \E i \in {"split", "config"}, funds \in WalletFunds, o \in OrderOwners :
        Store(i, Funded(funds, 0),
              [PendingCharge(FirstOrder, 10000, o) EXCEPT !.status = "SUCCESS"])

NextRefund ==
    \E p \in Procs :
        \/ calls < MaxSeqCalls /\ Quiet /\ StartProcessRefund(p)
        \/ calls < MaxSeqCalls /\ Quiet /\ StartUpdateStatus(p)
        \/ RfFind(p) \/ RfExisting(p) \/ RfMark(p) \/ RfWallet(p) \/ RfCommit(p)
        \/ UpdateTransactionStatus(p)

SpecRefund == InitRefund /\ [][NextRefund]_vars

----------------------------------------------------------------------------
(* The payouts of the instructor's wallet *)

PayoutFunds == {MinimumAmount, 2 * MinimumAmount}

InitPayout ==
    \E instructor \in PayoutFunds : Store("config", Funded(instructor, 0), NoTxn)

NextPayout ==
    \E p \in Procs :
        \/ calls < MaxPayoutCalls /\ StartSchedulePayout(p)
        \/ calls < MaxPayoutCalls /\ StartProcessPayout(p)
        \/ SpWallet(p) \/ SpCreate(p)
        \/ PpFind(p) \/ PpProcessing(p) \/ PpCommit(p)

SpecPayout == InitPayout /\ [][NextPayout]_vars

\* a payout request in flight runs its next statement
RunPayout(p) ==
    \/ SpWallet(p) \/ SpCreate(p)
    \/ PpFind(p) \/ PpProcessing(p) \/ PpCommit(p)
    \/ CpFind(p) \/ CpUpdate(p)
    \/ RtFind(p) \/ RtReset(p)
    \/ SwFind(p) \/ SwNext(p) \/ SwFailed(p)

\* the life of a payout: schedule, process, cancel, retry and the scheduled
\* sweep, each request arriving when none is in flight
NextLife ==
    \E p \in Procs :
        \/ calls < MaxLifeCalls /\ Quiet /\ StartSchedulePayout(p)
        \/ calls < MaxLifeCalls /\ Quiet /\ StartProcessPayout(p)
        \/ calls < MaxLifeCalls /\ Quiet /\ StartCancelPayout(p)
        \/ calls < MaxLifeCalls /\ Quiet /\ StartRetryPayout(p)
        \/ calls < MaxLifeCalls /\ Quiet /\ StartSweep(p)
        \/ RunPayout(p)

SpecLife == InitPayout /\ [][NextLife]_vars

----------------------------------------------------------------------------
(* The platform wallets at first use: concurrent calls of the accessors on  *)
(* a store that has no platform wallet yet                                  *)

\* the Wallet table before any platform wallet exists: empty, or holding the
\* instructor's wallet
FirstUse ==
    {[w \in WalletIds |-> NoWalletRow],
     [w \in WalletIds |-> IF w = InstructorWallet THEN Seeded[w] ELSE NoWalletRow]}

InitAccessor ==
    \E table \in FirstUse : StoreOf("split", table, Empty, [t \in TxnIds |-> NoTxn])

\* the Wallet table has an id left for every call in flight and one more
Room ==
    Cardinality(WalletRows) + Cardinality({q \in Procs : proc[q].pc # "idle"})
        < Cardinality(WalletIds)

NextAccessor ==
    \E p \in Procs :
        \/ calls < MaxSeqCalls /\ Room /\ StartGetPlatformWallet(p)
        \/ GwFind(p)
        \/ GwCreate(p)

SpecAccessor == InitAccessor /\ [][NextAccessor]_vars

----------------------------------------------------------------------------
(* Two orders settled at once: concurrent status updates of two PENDING     *)
(* charges under the split implementation                                   *)

SecondOrder == 2

\* two orders were placed, the first for the instructor, the second for
\* either instructor; nothing was credited
InitCharges ==
    \E a \in ChargeAmounts, b \in ChargeAmounts, u \in {Instructor, OtherInstructor} :
        StoreOf("split", Seeded, Empty,
                [t \in TxnIds |->
                    IF t = FirstOrder
                    THEN PendingCharge(FirstOrder, a, <<Instructor, InstructorWallet>>)
                    ELSE IF t = SecondOrder
                    THEN PendingCharge(SecondOrder, b,
                                       <<u, FindWalletIn(Seeded, "INSTRUCTOR", u)>>)
                    ELSE NoTxn])

NextCharges ==
    \E p \in Procs :
        \/ calls < MaxCalls /\ StartUpdateStatus(p)
        \/ UtsFind(p)
        \/ UtsUpdateOnly(p)
        \/ UtsUpdate(p)
        \/ UtsWallets(p)
        \/ UtsCredit(p)

SpecCharges == InitCharges /\ [][NextCharges]_vars

----------------------------------------------------------------------------
(* A payout under concurrent requests: process, cancel, retry and the       *)
(* scheduled sweep of a payout that was scheduled before they arrive        *)

FirstPayout == 1

\* the row schedulePayout created for the instructor: PENDING, or SCHEDULED
\* for a date
ScheduledPayout(at) ==
    [status |-> IF at # NoDate THEN "SCHEDULED" ELSE "PENDING",
     instructorId |-> Instructor, walletId |-> InstructorWallet,
     amount |-> MinimumAmount, scheduledAt |-> at, cancelled |-> FALSE,
     retried |-> FALSE]

InitRace ==
    \E instructor \in PayoutFunds, at \in {NoDate, 1} :
        StoreWith("config", Seeded, Funded(instructor, 0), [t \in TxnIds |-> NoTxn],
                  [k \in PayoutIds |-> IF k = FirstPayout THEN ScheduledPayout(at)
                                       ELSE NoPayout])

NextRace ==
    \E p \in Procs :
        \/ calls < MaxPayoutCalls /\ StartProcessPayout(p)
        \/ calls < MaxPayoutCalls /\ StartCancelPayout(p)
        \/ calls < MaxPayoutCalls /\ StartRetryPayout(p)
        \/ calls < MaxPayoutCalls /\ StartSweep(p)
        \/ PpFind(p) \/ PpProcessing(p) \/ PpCommit(p)
        \/ CpFind(p) \/ CpUpdate(p)
        \/ RtFind(p) \/ RtReset(p)
        \/ SwFind(p) \/ SwNext(p) \/ SwFailed(p)

SpecRace == InitRace /\ [][NextRace]_vars

\* the same requests and the status endpoint
NextOps ==
    \E p \in Procs :
        \/ calls < MaxPayoutCalls /\ StartProcessPayout(p)
        \/ calls < MaxPayoutCalls /\ StartCancelPayout(p)
        \/ calls < MaxPayoutCalls /\ StartRetryPayout(p)
        \/ calls < MaxPayoutCalls /\ StartSweep(p)
        \/ calls < MaxPayoutCalls /\ StartUpdatePayoutStatus(p)
        \/ PpFind(p) \/ PpProcessing(p) \/ PpCommit(p)
        \/ CpFind(p) \/ CpUpdate(p)
        \/ RtFind(p) \/ RtReset(p)
        \/ SwFind(p) \/ SwNext(p) \/ SwFailed(p)
        \/ UsUpdate(p)

SpecOps == InitRace /\ [][NextOps]_vars

----------------------------------------------------------------------------
(* Transactions of the other kinds: a PENDING transaction that is not a     *)
(* CHARGE, settled through status updates under either implementation      *)

OtherTypes == TransactionType \ {"CHARGE"}

\* the row POST /transactions inserted for the instructor and their wallet
PendingOther(type, amount) ==
    [NewTxn(type, "PENDING", amount, Instructor, InstructorWallet, 0)
        EXCEPT !.keys = {"manual"}]

InitKinds ==
    \E i \in {"split", "config"}, type \in OtherTypes, amount \in WalletAmounts,
       funds \in WalletFunds :
        Store(i, Funded(funds, 0), PendingOther(type, amount))

NextKinds ==
    \E p \in Procs :
        \/ calls < MaxSeqCalls /\ Quiet /\ StartUpdateStatus(p)
        \/ UpdateTransactionStatus(p)

SpecKinds == InitKinds /\ [][NextKinds]_vars

----------------------------------------------------------------------------
(* The creation of transactions: direct creation, payment orders and        *)
(* payment links, concurrent                                                *)

NextCreate ==
    \E p \in Procs :
        \/ calls < MaxCalls /\ StartCreateTransactionRequest(p)
        \/ calls < MaxCalls /\ StartCreatePaymentOrder(p)
        \/ CtCommit(p)
        \/ PoCreate(p)

SpecCreate == Init /\ [][NextCreate]_vars

----------------------------------------------------------------------------
(* The payout fee preview *)

NextFee ==
    \E p \in Procs :
        \/ calls < MaxCalls /\ StartCalculatePayoutAmount(p)
        \/ FeeCalc(p)

SpecFee == InitPayout /\ [][NextFee]_vars

----------------------------------------------------------------------------
(* Two refund requests of a settled order, concurrent *)

RefundFunds == {10000, 20000}

InitRefunds ==
    \E i \in {"split", "config"}, funds \in RefundFunds, o \in OrderOwners :
        Store(i, Funded(funds, 0),
              [PendingCharge(FirstOrder, 10000, o) EXCEPT !.status = "SUCCESS"])

NextRefunds ==
    \E p \in Procs :
        \/ calls < MaxCalls /\ StartProcessRefund(p)
        \/ RfFind(p) \/ RfExisting(p) \/ RfMark(p) \/ RfWallet(p) \/ RfCommit(p)

SpecRefunds == InitRefunds /\ [][NextRefunds]_vars

----------------------------------------------------------------------------
(* An order that is settled and then refunded, one request after the other *)

InitReverse ==
    \E i \in {"split", "config"}, a \in ChargeAmounts, o \in OrderOwners :
        Store(i, Funded(10000, 0), PendingCharge(FirstOrder, a, o))

NextReverse ==
    \E p \in Procs :
        \/ calls < MaxSeqCalls /\ Quiet /\ StartUpdateStatus(p)
        \/ calls < MaxSeqCalls /\ Quiet /\ StartProcessRefund(p)
        \/ UpdateTransactionStatus(p)
        \/ RfFind(p) \/ RfExisting(p) \/ RfMark(p) \/ RfWallet(p) \/ RfCommit(p)

SpecReverse == InitReverse /\ [][NextReverse]_vars

----------------------------------------------------------------------------
(* The ledger of an order and a payout: confirmations, refunds, payout      *)
(* processing and tax transfers, one request after the other                *)

\* userId and walletId of an order are optional, each on its own
LedgerOwners == OrderOwners \cup {<<Instructor, NoWallet>>}

InitLedger ==
    \E i \in {"split", "config"}, o \in LedgerOwners :
        StoreWith(i, Seeded, Funded(10000, 10000),
                  [t \in TxnIds |-> IF t = FirstOrder
                                    THEN PendingCharge(FirstOrder, 10000, o) ELSE NoTxn],
                  [k \in PayoutIds |-> IF k = FirstPayout THEN ScheduledPayout(NoDate)
                                       ELSE NoPayout])

NextLedger ==
    \E p \in Procs :
        \/ calls < MaxSeqCalls /\ Quiet /\ Confirm(p)
        \/ calls < MaxSeqCalls /\ Quiet /\ StartProcessRefund(p)
        \/ calls < MaxSeqCalls /\ Quiet /\ StartProcessPayout(p)
        \/ calls < MaxSeqCalls /\ Quiet /\ StartTransferTax(p)
        \/ Run(p)
        \/ RfFind(p) \/ RfExisting(p) \/ RfMark(p) \/ RfWallet(p) \/ RfCommit(p)
        \/ PpFind(p) \/ PpProcessing(p) \/ PpCommit(p)
        \/ TtGet(p) \/ TtCommit(p)

SpecLedger == InitLedger /\ [][NextLedger]_vars

----------------------------------------------------------------------------
(* Properties *)

TotalBalance ==
    balance[InstructorWallet] + balance[CommissionWallet] + balance[TaxWallet]
        + balance[OtherWallet]

\* C1, as stated: a second updateTransactionStatus(id, SUCCESS), made after the
\* first one credited the wallets, ends with Conflict and leaves every balance
\* as it was.
C1_SecondSuccessIsConflict ==
    [][\A p \in Procs :
         LET r == proc[p] IN
         ( /\ r.pc = "uts_update" /\ r.caller = "controller"
           /\ r.st = "SUCCESS" /\ r.old = "SUCCESS" /\ credited[r.id] = 1
           /\ proc'[p].pc = "idle" )
         => (last'.res = "Conflict" /\ balance' = balance)]_vars

\* C2, as stated: whatever the interleaving of verifications and webhooks of one
\* order, its transaction credits the wallets at most once, so that the wallets
\* hold at most the order's gross amount.
C2_ConfirmationsCreditOnce ==
    \A t \in TxnIds :
        Exists(t) => (credited[t] <= 1 /\ TotalBalance <= Dec(txns[t].amount))

SplitAt(bal, G, instructor, commission, tax) ==
    [bal EXCEPT ![InstructorWallet] = @ + instructor * G,
                ![CommissionWallet] = @ + commission * G,
                ![TaxWallet] = @ + tax * G]

\* C4, amended: when the split implementation moves a CHARGE of gross G from
\* PENDING to SUCCESS, exactly three wallets change: the INSTRUCTOR wallet of
\* the owning user by G x 0.85, the commission wallet by G x 0.10, the tax
\* wallet by G x 0.05; G = 10000 on empty wallets gives +8500, +1000, +500.
C4_SplitCreditsThreeWallets ==
    [][\A t \in TxnIds :
         (txns[t].type = "CHARGE" /\ txns[t].status = "PENDING"
          /\ txns'[t].status = "SUCCESS")
         => /\ WalletUser(InstructorWallet) = txns[t].userId
            /\ balance' = SplitAt(balance, txns[t].amount, 85, 10, 5)
            /\ (txns[t].amount = 10000 /\ balance = Empty) =>
                  /\ balance'[InstructorWallet] = Dec(8500)
                  /\ balance'[CommissionWallet] = Dec(1000)
                  /\ balance'[TaxWallet] = Dec(500)
                  /\ balance'[OtherWallet] = 0]_vars

C4_Witness ==
    /\ txns[FirstOrder].amount = 10000
    /\ txns[FirstOrder].status = "SUCCESS"
    /\ credited[FirstOrder] = 1
    /\ balance = [Empty EXCEPT ![InstructorWallet] = Dec(8500),
                               ![CommissionWallet] = Dec(1000),
                               ![TaxWallet] = Dec(500)]

\* C4, as stated: the shares are G x 0.75, G x 0.10 and G x 0.15.
C4_AsStated ==
    [][\A t \in TxnIds :
         (txns[t].type = "CHARGE" /\ txns[t].status = "PENDING"
          /\ txns'[t].status = "SUCCESS")
         => balance' = SplitAt(balance, txns[t].amount, 75, 10, 15)]_vars

AllowedTransitions ==
    {<<"PENDING", "SUCCESS">>, <<"PENDING", "FAILED">>, <<"SUCCESS", "REFUNDED">>}

\* C5, as stated: a transaction's status changes only along PENDING -> SUCCESS,
\* PENDING -> FAILED and SUCCESS -> REFUNDED.
C5_StatusChangesAreMonotonic ==
    [][\A t \in TxnIds :
         (Exists(t) /\ txns'[t].status # txns[t].status)
         => <<txns[t].status, txns'[t].status>> \in AllowedTransitions]_vars

\* C6, as stated: over any sequence of status updates of one transaction, its
\* revenue split is credited at most once.
C6_SplitCreditedAtMostOnce == \A t \in TxnIds : credited[t] <= 1

\* C7: a SUBTRACT whose amount exceeds the balance the handler reads (the
\* wallet balance update with operation SUBTRACT, a SUBTRACT-kind transaction
\* created with its wallet update) ends with InsufficientFunds in that step,
\* and neither the balance nor the ledger changes.
C7_SubtractBeyondBalanceRejected ==
    [][\A p \in Procs :
         LET r == proc[p] IN
         ( /\ \/ r.pc = "wb_check"
              \/ r.pc = "ct_wallet" /\ Operation(r.kind) = "SUBTRACT"
           /\ r.w \in WalletRows
           /\ balance[r.w] < Dec(r.amt)
           /\ proc'[p] # r )
         => /\ proc'[p].pc = "idle"
            /\ last'.op = r.op
            /\ last'.res = "InsufficientFunds"
            /\ balance' = balance
            /\ txns' = txns]_vars

\* a SUBTRACT of more than the wallet holds was just rejected
C7_Witness ==
    /\ last.op = "updateWalletBalance"
    /\ last.kind = "SUBTRACT"
    /\ last.res = "InsufficientFunds"
    /\ last.w \in WalletRows
    /\ balance[last.w] < Dec(last.amt)
    /\ balance[last.w] > 0

\* C8, as stated: in every reachable state every wallet balance is >= 0.
C8_BalancesNeverNegative == \A w \in WalletIds : balance[w] >= 0

PayoutTxns(k) == {t \in TxnIds : txns[t].type = "PAYOUT" /\ txns[t].origin = k}
PayoutItems(k) == {i \in items : i.payoutId = k}

\* C9, as stated: a payout that was processed, by however many concurrent
\* calls, is debited once: one PAYOUT transaction, one PayoutItem, and the
\* wallet it was paid from not overdrawn.
C9_PayoutProcessedOnce ==
    \A k \in PayoutIds :
        payouts[k].status = "COMPLETED" =>
            /\ debited[k] = 1
            /\ Cardinality(PayoutTxns(k)) = 1
            /\ Cardinality(PayoutItems(k)) = 1
            /\ balance[payouts[k].walletId] >= 0

\* C10: a process call that finds its payout COMPLETED is rejected in that
\* step and changes nothing: no debit, no PAYOUT transaction, no PayoutItem.
C10_CompletedPayoutNotReprocessed ==
    [][\A p \in Procs :
         LET r == proc[p] IN
         ( /\ r.pc = "pp_find"
           /\ PayoutExists(r.id)
           /\ payouts[r.id].status = "COMPLETED"
           /\ proc'[p] # r )
         => /\ proc'[p].pc = "idle"
            /\ last'.op = "processPayout"
            /\ last'.res = "CannotProcess"
            /\ UNCHANGED <<balance, txns, items, payouts, debited>>]_vars

\* schedule, process, process again: the second call was just rejected
C10_Witness ==
    /\ last.op = "processPayout"
    /\ last.res = "CannotProcess"
    /\ PayoutExists(last.id)
    /\ payouts[last.id].status = "COMPLETED"
    /\ debited[last.id] = 1
    /\ Cardinality(PayoutTxns(last.id)) = 1
    /\ Cardinality(PayoutItems(last.id)) = 1

\* C11: a payout that was cancelled is never processed: a retry of it is
\* rejected and its wallet is never debited for it
C11_CancelledPayoutNeverDebited ==
    \A k \in PayoutIds : payouts[k].cancelled => debited[k] = 0

\* the payouts SCHEDULED with scheduledAt at or before the date
DueAt(now) ==
    {k \in PayoutIds : payouts[k].status = "SCHEDULED" /\ payouts[k].scheduledAt # NoDate
                       /\ payouts[k].scheduledAt <= now}

\* C18: the sweep lists exactly the payouts that are SCHEDULED with
\* scheduledAt <= now, each once; when it returns, its outcome list has one
\* entry per listed payout, in order, processed + failed is their number, and
\* every listed payout was handled whatever happened to the others: COMPLETED
\* and debited where the entry says success, FAILED where it says failed
C18_SweepHandlesEveryDuePayout ==
    [][\A p \in Procs :
         LET r == proc[p] IN
         /\ (r.pc = "sw_find" /\ proc'[p].pc = "sw_next")
            => /\ {proc'[p].due[i] : i \in DOMAIN proc'[p].due} = DueAt(r.at)
               /\ Len(proc'[p].due) = Cardinality(DueAt(r.at))
         /\ (r.pc = "sw_next" /\ proc'[p].pc = "idle")
            => /\ last'.op = "processScheduledPayouts"
               /\ last'.due = r.due
               /\ Len(last'.results) = Len(r.due)
               /\ last'.processed + last'.failed = Len(r.due)
               /\ \A i \in DOMAIN r.due :
                    /\ last'.results[i][1] = r.due[i]
                    /\ last'.results[i][2] = "success"
                       => payouts[r.due[i]].status = "COMPLETED" /\ debited[r.due[i]] = 1
                    /\ last'.results[i][2] = "failed"
                       => payouts[r.due[i]].status = "FAILED" /\ debited[r.due[i]] = 0
                    /\ last'.results[i][2] \in {"success", "failed"}]_vars

\* a sweep returned in which a payout failed and a later one was processed
C18_Witness ==
    /\ last.op = "processScheduledPayouts"
    /\ \E i, j \in DOMAIN last.results :
          /\ i < j
          /\ last.results[i][2] = "failed"
          /\ last.results[j][2] = "success"
          /\ payouts[last.due[j]].status = "COMPLETED"

\* C19: schedule creates a payout only when the wallet it reads exists, belongs
\* to the instructor, the amount is at least 1000 and the balance it reads
\* covers the amount; the payout is PENDING without scheduledAt and SCHEDULED
\* with one; when a check fails the request ends with the error, no payout is
\* created and no balance changes; no other step creates a payout
C19_ScheduleValidates ==
    [][/\ \A p \in Procs :
            LET r == proc[p]
                valid == /\ r.w \in WalletIds
                         /\ wallets[r.w].type # "absent"
                         /\ wallets[r.w].userId = r.user
                         /\ r.amt >= 1000
                         /\ balance[r.w] >= r.amt * Scale IN
            /\ (r.pc = "sp_wallet" /\ proc'[p] # r)
               => /\ UNCHANGED <<balance, txns, payouts, items>>
                  /\ IF valid THEN proc'[p].pc = "sp_create"
                     ELSE /\ proc'[p].pc = "idle"
                          /\ last'.op = "schedulePayout"
                          /\ last'.res \in {"NotFound", "NotOwner", "BelowMinimum",
                                            "InsufficientFunds"}
            /\ (r.pc = "sp_create" /\ proc'[p] # r)
               => /\ UNCHANGED <<balance, txns, items>>
                  /\ \E k \in PayoutIds :
                        /\ payouts[k].status = "absent"
                        /\ payouts' = [payouts EXCEPT ![k] =
                              [status |-> IF r.at = NoDate THEN "PENDING" ELSE "SCHEDULED",
                               instructorId |-> r.user, walletId |-> r.w,
                               amount |-> r.amt, scheduledAt |-> r.at,
                               cancelled |-> FALSE, retried |-> FALSE]]
       /\ \A k \in PayoutIds :
            (payouts[k].status = "absent" /\ payouts'[k].status # "absent")
            => \E p \in Procs : proc[p].pc = "sp_create"]_vars

\* payouts of both kinds were created, and requests failing each check ended
C19_Witness ==
    /\ \E k \in PayoutIds : payouts[k].status = "PENDING" /\ payouts[k].scheduledAt = NoDate
    /\ \E k \in PayoutIds : payouts[k].status = "SCHEDULED" /\ payouts[k].scheduledAt # NoDate
    /\ last.op = "schedulePayout"
    /\ last.res = "InsufficientFunds"
    /\ PayoutCount = 2

\* C20: processPayout finding a PENDING or SCHEDULED payout whose wallet
\* balance is below its amount throws InsufficientFunds; the payouts, the
\* balances, the transactions and the payout items are unchanged
C20_ProcessBelowBalanceRejected ==
    [][\A p \in Procs :
         LET r == proc[p] IN
         ( /\ r.pc = "pp_find"
           /\ proc'[p] # r
           /\ r.id \in PayoutIds
           /\ payouts[r.id].status \in {"PENDING", "SCHEDULED"}
           /\ balance[payouts[r.id].walletId] < payouts[r.id].amount * Scale )
         => /\ UNCHANGED <<balance, txns, payouts, items, debited>>
            /\ IF r.caller = "sweep"
               THEN proc'[p].pc = "sw_failed" /\ proc'[p].res = "InsufficientFunds"
               ELSE proc'[p].pc = "idle" /\ last'.res = "InsufficientFunds"
                    /\ last'.op = r.op /\ last'.id = r.id]_vars

\* a processPayout call ended InsufficientFunds on a payout that is still PENDING
C20_Witness ==
    /\ last.op = "processPayout"
    /\ last.res = "InsufficientFunds"
    /\ last.id \in PayoutIds
    /\ payouts[last.id].status = "PENDING"
    /\ balance[payouts[last.id].walletId] < payouts[last.id].amount * Scale
    /\ debited[last.id] = 0

\* the transaction a gateway request is about, 0 when there is none
OrderOf(r) ==
    LET m == {t \in TxnIds : txns[t].status # "absent" /\ txns[t].externalId = r.ext}
    IN IF m = {} THEN 0 ELSE CHOOSE t \in m : TRUE

\* C12: a payment.captured or order.paid webhook that finds its transaction
\* in a status other than PENDING ends there with the outcome "already
\* processed"; transactions (status and metadata) and balances are unchanged
C12_CapturedReplayIsNoOp ==
    [][\A p \in Procs :
         LET r == proc[p] IN
         ( /\ r.pc = "wh_find"
           /\ proc'[p] # r
           /\ OrderOf(r) # 0
           /\ txns[OrderOf(r)].status \in {"SUCCESS", "FAILED", "REFUNDED"} )
         => /\ r.op \in {"payment.captured", "order.paid"}
            /\ proc'[p].pc = "idle"
            /\ last'.op = r.op
            /\ last'.res = "AlreadyProcessed"
            /\ UNCHANGED <<balance, txns, payouts, items, credited>>]_vars

\* a payment.captured webhook was replayed on a transaction that is SUCCESS
\* and was credited once
C12_Witness ==
    /\ last.op = "payment.captured"
    /\ last.res = "AlreadyProcessed"
    /\ txns[FirstOrder].status = "SUCCESS"
    /\ credited[FirstOrder] = 1
    /\ Quiet

\* C13: a webhook whose signature does not verify never gets past the
\* verification: it is never in flight, and it ends with SignatureInvalid in
\* the step it arrives in, which changes no transaction and no balance,
\* whatever its event type
C13_InvalidSignatureFailsClosed ==
    [][/\ \A p \in Procs :
            (proc'[p].caller = "webhook" /\ proc'[p].pc # "idle") => proc'[p].sig
       /\ (calls' # calls /\ last' # last /\ last'.caller = "webhook" /\ ~last'.sig)
          => /\ last'.res = "SignatureInvalid"
             /\ UNCHANGED <<balance, txns, payouts, items, credited>>]_vars

\* a payment.captured webhook with a bad signature was turned away while its
\* transaction was PENDING, and the transaction still is
C13_Witness ==
    /\ last.op = "payment.captured"
    /\ last.caller = "webhook"
    /\ ~last.sig
    /\ last.res = "SignatureInvalid"
    /\ txns[FirstOrder].status = "PENDING"
    /\ credited[FirstOrder] = 0
    /\ calls = 1

\* the REFUND transactions recorded for an original transaction
RefundRowsIn(rows, id) ==
    {t \in TxnIds : rows[t].status # "absent" /\ rows[t].type = "REFUND"
                    /\ rows[t].origin = id}

RefundRows(id) == RefundRowsIn(txns, id)

PlatformRows(kind) ==
    {w \in WalletRows : WalletType(w) = kind /\ WalletUser(w) = NoUser}

\* C15: under any interleaving of concurrent first-use calls of the platform
\* wallet accessors, at most one PLATFORM_COMMISSION row and at most one
\* PLATFORM_TAX row without an owning user exists.
C15_PlatformWalletsAreSingletons ==
    \A kind \in PlatformKinds : Cardinality(PlatformRows(kind)) <= 1

\* the share of a transaction's gross amount that its settlement adds to a wallet
ShareOf(t, w) ==
    (IF w = FindWalletByTypeAndUser("INSTRUCTOR", txns[t].userId)
     THEN InstructorAmount(txns[t].amount) ELSE 0)
    + (IF w = FindWalletByType("PLATFORM_COMMISSION")
       THEN CommissionAmount(txns[t].amount) ELSE 0)
    + (IF w = FindWalletByType("PLATFORM_TAX") THEN TaxAmount(txns[t].amount) ELSE 0)

\* C16: concurrent successful CHARGE transitions of different transactions
\* that credit the same wallets never lose an update: every wallet's balance
\* is the sum of the shares of all committed settlements, so after both
\* commit it has increased by the sum of the two transactions' shares.
C16_ConcurrentChargesLoseNoUpdate ==
    \A w \in WalletIds :
        balance[w] = credited[FirstOrder] * ShareOf(FirstOrder, w)
                     + credited[SecondOrder] * ShareOf(SecondOrder, w)

\* both orders are settled, each credited once, and the platform wallets hold
\* the shares of both
C16_Witness ==
    /\ txns[FirstOrder].status = "SUCCESS" /\ credited[FirstOrder] = 1
    /\ txns[SecondOrder].status = "SUCCESS" /\ credited[SecondOrder] = 1
    /\ txns[FirstOrder].amount # txns[SecondOrder].amount
    /\ txns[SecondOrder].userId = Instructor
    /\ balance[InstructorWallet] = InstructorAmount(txns[FirstOrder].amount)
                                   + InstructorAmount(txns[SecondOrder].amount)
    /\ balance[CommissionWallet] = CommissionAmount(txns[FirstOrder].amount)
                                   + CommissionAmount(txns[SecondOrder].amount)
    /\ balance[TaxWallet] = TaxAmount(txns[FirstOrder].amount)
                            + TaxAmount(txns[SecondOrder].amount)

WalletNotFound ==
    {"InstructorWalletNotFound", "CommissionWalletNotFound", "TaxWalletNotFound"}

\* C17: when a PENDING->SUCCESS of a CHARGE cannot resolve the instructor,
\* the commission or the tax wallet, the request that ends with that error
\* leaves the transaction PENDING with its metadata unchanged and credits no
\* wallet.
C17_UnresolvedWalletLeavesPending ==
    [][(last' # last /\ last'.res \in WalletNotFound)
       => /\ txns'[last'.id].status = "PENDING"
          /\ txns'[last'.id] = txns[last'.id]
          /\ balance' = balance
          /\ credited' = credited]_vars

\* C21: cancel changes the status only of a payout that is PENDING or
\* SCHEDULED at the moment of the change, also when it races a concurrent
\* process of the same payout; it then sets FAILED with the cancellation mark
\* and changes no balance.
C21_CancelOnlyFromPendingOrScheduled ==
    [][\A p \in Procs :
          (proc[p].pc = "cp_update" /\ proc'[p].pc # "cp_update")
          => /\ Cancellable(payouts[proc[p].id].status)
             /\ payouts'[proc[p].id].status = "FAILED"
             /\ payouts'[proc[p].id].cancelled
             /\ balance' = balance]_vars

\* C22: COMPLETED is terminal for a payout: once COMPLETED, its status never
\* changes again, under process, cancel, retry, the scheduled sweep and the
\* status endpoint.
C22_CompletedIsTerminal ==
    [][\A k \in PayoutIds :
          payouts[k].status = "COMPLETED" => payouts'[k].status = "COMPLETED"]_vars

\* C23: over process, retry, cancel and the scheduled sweep, every payout has
\* at most one PayoutItem and at most one PAYOUT transaction, and its wallet is
\* debited for it at most once.
C23_PayoutDebitedAtMostOnce ==
    \A k \in PayoutIds :
        /\ Cardinality(PayoutItems(k)) <= 1
        /\ Cardinality(PayoutTxns(k)) <= 1
        /\ debited[k] <= 1

\* the PayoutItems that link a payout to a SUCCESS PAYOUT transaction of the
\* payout's amount and wallet
SettlingItems(k) ==
    {i \in PayoutItems(k) :
        /\ i.amount = payouts[k].amount
        /\ txns[i.transactionId].type = "PAYOUT"
        /\ txns[i.transactionId].status = "SUCCESS"
        /\ txns[i.transactionId].amount = payouts[k].amount
        /\ txns[i.transactionId].walletId = payouts[k].walletId}

\* C30: in every committed state a payout is COMPLETED only if exactly one
\* PayoutItem links it to a SUCCESS PAYOUT transaction of the same amount and
\* wallet and the wallet was debited for it.
C30_CompletedHasOneSettlement ==
    \A k \in PayoutIds :
        payouts[k].status = "COMPLETED" =>
            /\ Cardinality(PayoutItems(k)) = 1
            /\ Cardinality(SettlingItems(k)) = 1
            /\ debited[k] >= 1

\* C24: a payment.failed webhook changes a transaction's status to FAILED
\* only when the transaction is PENDING; a transaction that is SUCCESS,
\* REFUNDED or FAILED keeps its status, and no balance changes.
C24_FailedWebhookOnlyFromPending ==
    [][\A p \in Procs :
          (proc[p].op = "payment.failed" /\ proc'[p] # proc[p])
          => /\ \A t \in TxnIds :
                    txns'[t].status # txns[t].status
                    => txns[t].status = "PENDING" /\ txns'[t].status = "FAILED"
             /\ balance' = balance]_vars

\* C25: a refund.created webhook is informational only: no step of its
\* handling changes a transaction, creates one or changes a balance.
C25_RefundCreatedChangesNothing ==
    [][\A p \in Procs :
          (proc[p].op = "refund.created" /\ proc'[p] # proc[p])
          => /\ txns' = txns
             /\ balance' = balance
             /\ credited' = credited
             /\ proc'[p].pc = "idle"
             /\ last'.res = "handled"]_vars

\* a refund.created webhook for a settled order was handled and the order is
\* still SUCCESS with its credit in place
C25_Witness ==
    /\ last.op = "refund.created"
    /\ last.res = "handled"
    /\ txns[FirstOrder].status = "SUCCESS"
    /\ credited[FirstOrder] = 1
    /\ TotalBalance > 0

\* the balances after the configured rule of a transaction's kind is applied
\* to its wallet
RuleApplied(bal, t) ==
    IF AffectsWallet(txns[t].type) /\ Operation(txns[t].type) # "null"
       /\ txns[t].walletId \in WalletRows
    THEN ApplyOperation(bal, txns[t].walletId, Operation(txns[t].type), txns[t].amount)
    ELSE bal

\* C26: on PENDING->SUCCESS of a transaction that is not a CHARGE the
\* three-way split is not applied: the balances change by the configured rule
\* of the kind (ADD credits, SUBTRACT debits the transaction's wallet, a kind
\* without a wallet operation changes nothing), and a SUBTRACT beyond the
\* balance does not take place.
C26_OtherKindsFollowTheirRule ==
    [][\A t \in TxnIds :
          (txns[t].status = "PENDING" /\ txns'[t].status = "SUCCESS"
           /\ txns[t].type # "CHARGE")
          => /\ balance' = RuleApplied(balance, t)
             /\ \A w \in WalletIds : balance'[w] >= 0]_vars

CreateOps == {"createTransaction", "createPaymentOrder", "createPaymentLink"}

\* C27: every transaction created through direct creation, a payment order
\* or a payment link starts PENDING, and its creation changes no balance; a
\* creation request with amount <= 0 is rejected and creates no transaction.
C27_CreatedPendingWithoutBalanceChange ==
    [][/\ \A t \in TxnIds :
             txns'[t] # txns[t]
             => /\ txns[t].status = "absent"
                /\ txns'[t].status = "PENDING"
                /\ txns'[t].amount > 0
       /\ balance' = balance
       /\ \A p \in Procs : proc'[p].op \in CreateOps => proc'[p].amt > 0
       /\ (calls' # calls /\ proc' = proc /\ last'.amt <= 0)
             => last'.res = "InvalidAmount" /\ txns' = txns]_vars

\* a CHARGE for the instructor's wallet was created directly and is PENDING,
\* no balance has changed, and a request with amount 0 was turned away
C27_Witness ==
    /\ \E t \in TxnIds :
          /\ txns[t].status = "PENDING" /\ txns[t].type = "CHARGE"
          /\ txns[t].walletId = InstructorWallet /\ txns[t].keys = {}
    /\ \A w \in WalletIds : balance[w] = 0
    /\ last.op \in CreateOps /\ last.amt = 0 /\ last.res = "InvalidAmount"

\* the transactions that carry an external reference
Referenced(ext) == {t \in TxnIds : txns[t].status # "absent" /\ txns[t].externalId = ext}

NoSharedReference ==
    \A ext \in ExternalRefs \ {0} : Cardinality(Referenced(ext)) <= 1

\* C28: in every reachable state no two transactions share a non-null
\* external reference, so a lookup by external reference finds at most one;
\* a creation with a reference that exists is rejected and leaves the
\* transactions unchanged.
C28_ExternalReferenceUnique ==
    /\ []NoSharedReference
    /\ [][(last' # last /\ last'.res = "Conflict") => txns' = txns]_vars
    /\ [][\A p \in Procs :
             (proc[p].pc \in {"ct_commit", "po_create"} /\ proc'[p] # proc[p]
              /\ Referenced(proc[p].ext) # {} /\ proc[p].ext # 0)
             => txns' = txns /\ last'.res = "Conflict"]_vars

\* a creation carrying the reference of an existing transaction was
\* rejected; that transaction is the only one with the reference, and another
\* transaction without reference exists beside it
C28_Witness ==
    /\ last.op \in CreateOps /\ last.res = "Conflict"
    /\ Cardinality(Referenced(1)) = 1
    /\ Referenced(0) # {}

\* a preview <<gross, fee, net>> of a gross amount is right for a fee: the
\* net amount is the gross amount less the fee, and 0 when the fee exceeds it
PreviewOf(preview, grossAmount, fee) ==
    /\ preview[1] = grossAmount * Scale
    /\ preview[2] = fee
    /\ preview[3] >= 0
    /\ preview[3] >= grossAmount * Scale - fee
    /\ preview[3] > 0 => preview[3] = grossAmount * Scale - fee

C31_ConcurrentRefundsSettleOnce ==
    [][\A p \in Procs :
          LET r == proc[p] IN
          (r.pc = "rf_commit" /\ proc'[p] # r)
             => /\ txns[r.id].status = "SUCCESS"
                /\ RefundRows(r.id) = {}
                /\ Cardinality(RefundRowsIn(txns', r.id)) = 1]_vars

\* C32: a refund of a SUCCESS transaction whose wallet balance is below the
\* original amount is rejected with InsufficientFunds and changes nothing:
\* the original stays SUCCESS, no REFUND transaction exists afterwards and
\* every balance is unchanged.
C32_RefundBeyondBalanceRollsBack ==
    [][\A p \in Procs :
          LET r == proc[p] IN
          (/\ r.op = "processRefund"
           /\ r.pc \in {"rf_wallet", "rf_commit"}
           /\ proc'[p] # r
           /\ r.w \in WalletRows
           /\ balance[r.w] < Dec(r.amt))
             => /\ proc'[p].pc = "idle"
                /\ last'.op = "processRefund"
                /\ last'.res = "InsufficientFunds"
                /\ txns'[r.id].status = "SUCCESS"
                /\ RefundRowsIn(txns', r.id) = {}
                /\ UNCHANGED <<balance, txns, payouts, items>>]_vars

\* the refund of the settled order of 10000 was rejected for an empty wallet
C32_Witness ==
    /\ last.op = "processRefund"
    /\ last.id = FirstOrder
    /\ last.res = "InsufficientFunds"
    /\ txns[FirstOrder].status = "SUCCESS"
    /\ RefundRows(FirstOrder) = {}
    /\ balance[InstructorWallet] = 0
    /\ calls = 1

\* C33: a refund reverses the original charge: after a CHARGE moved to
\* SUCCESS and was then refunded, the instructor, commission and tax wallet
\* balances equal their values before the charge succeeded.
C33_RefundReversesCharge ==
    (/\ calls = 2
     /\ Quiet
     /\ txns[FirstOrder].status = "REFUNDED"
     /\ credited[FirstOrder] = 1
     /\ Cardinality(RefundRows(FirstOrder)) = 1)
        => balance = Funded(10000, 0)

\* C34: a verifyPayment call whose payment signature does not match never
\* moves a transaction to SUCCESS and credits no wallet: no step of such a
\* call changes a balance or leaves a transaction SUCCESS that was not.
C34_BadSignatureNeverSucceeds ==
    [][\A p \in Procs :
          (proc[p].op = "verifyPayment" /\ ~proc[p].sig /\ proc'[p] # proc[p])
             => /\ balance' = balance
                /\ \A t \in TxnIds :
                      txns'[t].status = "SUCCESS" => txns[t].status = "SUCCESS"]_vars

\* the columns of a transaction other than its status and metadata
Columns(t) == <<t.type, t.amount, t.userId, t.walletId, t.externalId, t.origin>>

\* C35: a PENDING -> FAILED transition, from a verification failure or a
\* payment.failed webhook, changes only the transaction's status and
\* metadata: every wallet balance, every other transaction and every payout
\* is unchanged.
C35_FailureChangesOnlyTheTransaction ==
    [][\A t \in TxnIds :
          (txns[t].status = "PENDING" /\ txns'[t].status = "FAILED")
             => /\ Columns(txns'[t]) = Columns(txns[t])
                /\ \A u \in TxnIds \ {t} : txns'[u] = txns[u]
                /\ UNCHANGED <<balance, wallets, payouts, items, credited, debited>>
                /\ last'.op \in {"verifyPayment", "payment.failed"}]_vars

\* a verification failed for the gateway and a payment.failed webhook arrived:
\* the order is FAILED with the reason recorded, its columns and every
\* balance as before
C35_Witness ==
    /\ last.op \in {"verifyPayment", "payment.failed"}
    /\ last.res \in {"ProviderUnavailable", "ok"}
    /\ txns[FirstOrder].status = "FAILED"
    /\ "failureReason" \in txns[FirstOrder].keys
    /\ txns[FirstOrder].amount = 10000
    /\ txns[FirstOrder].walletId = InstructorWallet
    /\ balance = Empty
    /\ Quiet

\* C36: the scheduled sweep changes only payouts that are SCHEDULED with
\* scheduledAt <= now at the moment it acts on them: a step of the sweep
\* that changes a payout's status or debits for it finds the payout SCHEDULED and due;
\* PENDING payouts, payouts due later and payouts another operation moved to
\* COMPLETED or FAILED are left as they are.
C36_SweepChangesOnlyDuePayouts ==
    [][\A p \in Procs, k \in PayoutIds :
          (/\ proc[p].caller = "sweep"
           /\ proc'[p] # proc[p]
           /\ (payouts'[k].status # payouts[k].status \/ debited'[k] # debited[k]))
             => k \in DueAt(proc[p].at)]_vars

\* C37: every change of a wallet balance is committed together with the
\* creation or the status change of a transaction that accounts for it: a
\* step that changes a balance also inserts a transaction or changes the
\* status of one.
C37_BalanceChangesHaveATransaction ==
    [][balance' # balance
         => \E t \in TxnIds : txns'[t].status # txns[t].status]_vars

\* C38: in every reachable state a CHARGE transaction is SUCCESS only if its
\* revenue split has been credited to the three wallets exactly once; no
\* sequence of status updates, verifyPayment calls or webhooks produces a
\* SUCCESS CHARGE whose split was never credited.  Stated for the
\* implementation that splits the revenue.
C38_SuccessMeansCreditedOnce ==
    impl = "split"
       => \A t \in TxnIds :
             (txns[t].type = "CHARGE" /\ txns[t].status = "SUCCESS")
                => /\ credited[t] = 1
                   /\ TotalBalance = Dec(txns[t].amount)

\* what a transaction accounts for: the gross amount of a CHARGE once per
\* credit of its split, less the amount of a REFUND, a PAYOUT or a tax transfer
Accounted(t) ==
    IF txns[t].status = "absent" THEN 0
    ELSE IF txns[t].type = "CHARGE" THEN credited[t] * Dec(txns[t].amount)
    ELSE IF txns[t].type \in {"REFUND", "PAYOUT", "TAX"} THEN 0 - Dec(txns[t].amount)
    ELSE 0

RECURSIVE AccountedOver(_)
AccountedOver(S) ==
    IF S = {} THEN 0
    ELSE LET t == CHOOSE x \in S : TRUE IN Accounted(t) + AccountedOver(S \ {t})

\* C39: over any sequence of charge successes, refunds, payout processing
\* and tax transfers, the sum of all wallet balances equals what the wallets
\* held at first, plus the gross amount of the CHARGE transactions whose
\* split was credited, minus the amounts of the REFUND transactions, the
\* PAYOUT transactions and the tax transfers.
C39_BalancesMatchTheLedger ==
    Quiet => TotalBalance = Dec(10000) + Dec(10000) + AccountedOver(TxnIds)

\* C40: when retry is invoked on a FAILED payout and its process step fails
\* (the wallet balance is below the payout amount), the payout is left
\* PENDING with the retried marker, not FAILED, and no wallet balance, PAYOUT
\* transaction or payout item is changed or created: the reset changes the
\* payout alone, and the failing process step changes nothing.
C40_FailedRetryLeavesPending ==
    [][\A p \in Procs :
          LET r == proc[p] IN
          /\ (r.op = "retryPayout" /\ r.pc = "rt_reset" /\ proc'[p] # r)
                => /\ payouts[r.id].status = "FAILED"
                   /\ payouts'[r.id].status = "PENDING"
                   /\ payouts'[r.id].retried
                   /\ UNCHANGED <<balance, txns, items, debited>>
          /\ (/\ r.op = "retryPayout" /\ r.pc = "pp_find" /\ proc'[p] # r
              /\ balance[payouts[r.id].walletId] < Dec(payouts[r.id].amount))
                => /\ proc'[p].pc = "idle"
                   /\ last'.op = "retryPayout"
                   /\ last'.res = "InsufficientFunds"
                   /\ payouts'[r.id].status = "PENDING"
                   /\ payouts'[r.id].retried
                   /\ UNCHANGED <<balance, txns, items, payouts, debited>>]_vars

\* a retry of a payout that had failed ended for the balance: the payout is
\* PENDING and marked retried, nothing was debited for it
C40_Witness ==
    /\ last.op = "retryPayout"
    /\ last.res = "InsufficientFunds"
    /\ payouts[last.id].status = "PENDING"
    /\ payouts[last.id].retried
    /\ debited[last.id] = 0
    /\ PayoutTxns(last.id) = {}
    /\ PayoutItems(last.id) = {}
    /\ Quiet

====
